---- MODULE Spec2Model ----
(***************************************************************************)
(* Training-job orchestration of the DataForAll backend: the job store,    *)
(* the orchestrator's background tasks, the worker callbacks, the          *)
(* persistent-worker polling endpoint and the periodic sweeps.             *)
(*                                                                         *)
(* Time passes in whole minutes.  A timestamp column holds the age of the   *)
(* stamp (minutes since datetime.utcnow() was stored), so that writing     *)
(* utcnow() stores 0 and Tick ages every stamp.  A database row is read    *)
(* and written in separate steps where the handler awaits between its      *)
(* SELECT and its COMMIT.                                                  *)
(***************************************************************************)
EXTENDS Integers, Sequences, FiniteSets, TLC

\* ---------------------------------------------------------------- bounds
MaxJobs == 1
MaxTime == 6
MaxSeen == 3
MaxUpdated == 31
MaxInstances == 2
MaxLogs == 1

\* the row the table may hold from before revision abc123 added the nullable
\* last_progress_at column without a backfill
LegacyJob == 0

\* websockets observers open
MaxSockets == 2
Sockets == 1..MaxSockets

\* progress_manager and log_manager
Managers == {"progress", "logs"}

Jobs == LegacyJob..MaxJobs
Instances == 1..MaxInstances

\* ------------------------------------------------------ program constants
MAX_PROVISION_RETRIES == 3
HEARTBEAT_TIMEOUT_MINUTES == 5
ORPHANED_JOB_TIMEOUT_MINUTES == 30
WORKER_OFFLINE_TIMEOUT_SECONDS == 120

\* SQL NULL / Python None for timestamps, job ids and instance ids
Null == 0 - 1

TerminalStatuses == {"COMPLETED", "FAILED", "CANCELLED"}
TrainingJobStatus ==
    {"QUEUED", "PROVISIONING", "TRAINING", "UPLOADING"} \cup TerminalStatuses
WorkerStatus == {"starting", "online", "busy", "offline", "terminated"}

\* error_message values, as token sequences; <<>> is NULL
NoMessage == <<>>
CancelledMessage == <<"Cancelled by user">>
OrphanedMessage == <<"Job timed out during provisioning">>
ProvisionFailedMessage ==
    <<"Provisioning failed after", MAX_PROVISION_RETRIES, "attempts">>
NoHeartbeatMessage(n) == <<"No heartbeat for", n, "minutes">>
WorkerErrorMessage == <<"worker error">>

\* settings.CALLBACK_SECRET, and the secrets a request may carry in its
\* X-Callback-Secret header: that one and one that differs from it
CALLBACK_SECRET == "shared"
Secrets == {CALLBACK_SECRET, "other"}

\* HTTP answers: the handler that answered, the status code and, for a
\* next-job poll that hands out a job, the job of the descriptor
NoReply == [op |-> "none", code |-> Null, job |-> Null]
Reply(op, code) == [op |-> op, code |-> code, job |-> Null]

\* bodies of the complete callback (accuracy and loss in hundredths)
CompletePayloads ==
    { [result_accuracy |-> 91, result_loss |-> 22, epochs_completed |-> 10],
      [result_accuracy |-> 50, result_loss |-> 70, epochs_completed |-> 8] }

\* bodies of the status callback; Null is an omitted optional field
StatusPayloads ==
    { [epochs_completed |-> 3, current_epoch |-> 3,
       current_loss |-> 40, current_accuracy |-> 60],
      [epochs_completed |-> 3, current_epoch |-> 3,
       current_loss |-> Null, current_accuracy |-> Null] }

\* bodies of the heartbeat callback; the worker sends its epoch once it has one
HeartbeatPayloads == { [current_epoch |-> 4], [current_epoch |-> Null] }

\* max_epochs of a request that leaves the field out, and of the column
DEFAULT_MAX_EPOCHS == 10

\* remote-shell attempts start_worker and create_gpu_instance make
max_ssh_retries == 5

\* bodies the schemas accept (every field ge=0, no upper limit) whose epoch is
\* the job's last one, or one past it
LateStatusPayloads ==
    { [epochs_completed |-> e, current_epoch |-> e,
       current_loss |-> Null, current_accuracy |-> Null] :
         e \in {DEFAULT_MAX_EPOCHS, DEFAULT_MAX_EPOCHS + 1} }

LateHeartbeatPayloads ==
    { [current_epoch |-> e] :
         e \in {DEFAULT_MAX_EPOCHS, DEFAULT_MAX_EPOCHS + 1} }

VARIABLES
    PERSISTENT_WORKER_ENABLED,\* settings flag, fixed per deployment
    jobs,                     \* training_jobs table
    prov,                     \* the provisioning task of each job
    cleanup_tasks,            \* scheduled cleanup_job(job_id) tasks
    workers,                  \* persistent_workers table, creation order
    instances,                \* provider-side state of each instance id
    destroy_calls,            \* destroy_instance calls made, with the caller
    webhooks,                 \* webhook POSTs attempted: <<job, status>>
    poll,                     \* the next-job request of each worker container
    handed,                   \* pollers handed each job since it was last QUEUED
    sweep,                    \* the heartbeat-monitor sweep in progress
    logs,                     \* training_logs table: rows held for each job
    starts,                   \* instances a start request is bootstrapping
    ssh_calls,                \* bootstrap attempts made on each instance
    active_connections,       \* observers' sockets of each manager, by job id
    closed,                   \* sockets whose peer is gone: a send raises
    delivered,                \* sockets the last broadcast sent its message to
    reply                     \* the HTTP answer the last step sent, if any

vars == <<PERSISTENT_WORKER_ENABLED, jobs, prov, cleanup_tasks, workers,
          instances, destroy_calls, webhooks, poll, handed, sweep, logs,
          starts, ssh_calls, active_connections, closed, delivered, reply>>

\* ------------------------------------------------------------- job store
NoRow ==
    [ row |-> "none", status |-> "QUEUED", vultr_instance_id |-> Null,
      error_message |-> NoMessage, last_progress_at |-> Null,
      updated_at |-> Null,
      result_accuracy |-> Null, result_loss |-> Null,
      epochs_completed |-> 0, current_epoch |-> 0,
      max_epochs |-> DEFAULT_MAX_EPOCHS,
      notify_webhook |-> FALSE ]

\* a row other sessions can see
Visible(j) == jobs[j].row = "committed"

IsTerminal(j) == jobs[j].status \in TerminalStatuses

\* ------------------------------------------------------- worker manager
ActiveIndexes(ws) == { i \in 1..Len(ws) : ws[i].status # "terminated" }

HasActiveWorker(ws) == ActiveIndexes(ws) # {}

ActiveIndex(ws) ==
    CHOOSE i \in ActiveIndexes(ws) : \A k \in ActiveIndexes(ws) : k <= i

HeartbeatRow(w) ==
    [w EXCEPT !.last_seen_at = 0,
              !.status = IF @ \in {"starting", "offline"} THEN "online" ELSE @]

worker_heartbeat(ws) ==
    IF HasActiveWorker(ws)
    THEN [ws EXCEPT ![ActiveIndex(ws)] = HeartbeatRow(@)]
    ELSE ws

\* a busy mark that does not record the job
BusyRowWithoutJob(w, j) == [w EXCEPT !.status = "busy"]

BusyRow(w, j) == [w EXCEPT !.status = "busy", !.current_job_id = j]

set_worker_busy(ws, j) ==
    IF HasActiveWorker(ws)
    THEN [ws EXCEPT ![ActiveIndex(ws)] = BusyRow(@, j)]
    ELSE ws

IdleRow(w) == [w EXCEPT !.status = "online", !.current_job_id = Null]

set_worker_idle(ws) ==
    IF HasActiveWorker(ws)
    THEN [ws EXCEPT ![ActiveIndex(ws)] = IdleRow(@)]
    ELSE ws

get_persistent_instance_id(ws) ==
    IF HasActiveWorker(ws) THEN ws[ActiveIndex(ws)].lambda_instance_id ELSE Null

\* a liveness test that trusts the recorded status and ignores last_seen_at
is_worker_online_by_status(ws) ==
    /\ HasActiveWorker(ws)
    /\ ws[ActiveIndex(ws)].status \in {"online", "busy"}

is_worker_online(ws) ==
    /\ HasActiveWorker(ws)
    /\ LET w == ws[ActiveIndex(ws)] IN
        /\ w.status \in {"online", "busy"}
        /\ w.last_seen_at # Null
        /\ w.last_seen_at * 60 < WORKER_OFFLINE_TIMEOUT_SECONDS

\* ------------------------------------------------------------------ init
\* everything but the tables' rows and the provider's instances
InitTasks ==
    /\ PERSISTENT_WORKER_ENABLED \in BOOLEAN
    /\ prov = [j \in Jobs |-> [pc |-> "none", retry_count |-> 0, calls |-> 0]]
    /\ cleanup_tasks = {}
    /\ workers = <<>>
    /\ destroy_calls = {}
    /\ webhooks = {}
    /\ poll = [p \in Instances |-> [pc |-> "idle", job |-> Null]]
    /\ handed = [j \in Jobs |-> {}]
    /\ sweep = [pc |-> "idle", stale |-> {}]
    /\ logs = [j \in Jobs |-> 0]
    /\ starts = {}
    /\ ssh_calls = [i \in Instances |-> 0]
    /\ active_connections = [m \in Managers |-> [j \in Jobs |-> {}]]
    /\ closed = {}
    /\ delivered = {}
    /\ reply = NoReply

\* a fresh deployment: empty tables, no instance
Init ==
    /\ InitTasks
    /\ jobs = [j \in Jobs |-> NoRow]
    /\ instances = [i \in Instances |-> "absent"]

\* a job that was in flight when the table was upgraded: its
\* last_progress_at is NULL and its updated_at is as old as the orphan sweep
\* tolerates; inst is the dedicated instance it was given, if one is recorded
LegacyRow(st, inst) ==
    [NoRow EXCEPT !.row = "committed", !.status = st,
                  !.vultr_instance_id = inst,
                  !.updated_at = ORPHANED_JOB_TIMEOUT_MINUTES]

\* an upgraded deployment: the table may hold one such row; the container on
\* its dedicated instance, which predates the callbacks, sends none
Upgraded(statuses) ==
    /\ InitTasks
    /\ \E legacy \in BOOLEAN, st \in statuses, inst \in {Null, 1} :
         /\ jobs = [j \in Jobs |->
                      IF legacy /\ j = LegacyJob
                      THEN LegacyRow(st, inst) ELSE NoRow]
         /\ instances = [i \in Instances |->
                      IF legacy /\ i = inst THEN "active" ELSE "absent"]

\* a minute passes: every stamp that can be read ages.  last_progress_at is
\* read only on TRAINING rows, which every writer of TRAINING has stamped, and
\* is exact up to MaxTime (a stamp of MaxTime is that old or older);
\* updated_at is read only on PROVISIONING rows, which _update_status has
\* just stamped, and is exact up to MaxUpdated; a worker stamp is exact up to
\* MaxSeen, beyond the liveness window
AgeTo(stamp, cap) ==
    IF stamp = Null \/ stamp >= cap THEN stamp ELSE stamp + 1

Tick ==
    /\ reply' = NoReply
    /\ jobs' = [j \in Jobs |->
                  [jobs[j] EXCEPT
                     !.last_progress_at = IF jobs[j].status = "TRAINING"
                                          THEN AgeTo(@, MaxTime) ELSE @,
                     !.updated_at = IF jobs[j].status = "PROVISIONING"
                                    THEN AgeTo(@, MaxUpdated) ELSE @]]
    /\ workers' = [i \in 1..Len(workers) |->
                     [workers[i] EXCEPT !.last_seen_at = AgeTo(@, MaxSeen)]]
    /\ UNCHANGED <<PERSISTENT_WORKER_ENABLED, logs, prov, cleanup_tasks,
                   instances, destroy_calls, webhooks, poll, handed, sweep,
                   starts, ssh_calls, active_connections, closed, delivered>>

\* ------------------------------------------------ submission and deletion
\* launch_training: TRUE when it spawns the provisioning task
launch_training ==
    ~(PERSISTENT_WORKER_ENABLED /\ is_worker_online(workers))

\* start_training: the row is flushed, not committed, when launch_training
\* runs
start_training(j, hook) ==
    /\ reply' = NoReply
    /\ jobs[j].row = "none"
    /\ jobs' = [jobs EXCEPT ![j] = [NoRow EXCEPT !.row = "uncommitted",
                                                 !.status = "QUEUED",
                                                 !.updated_at = 0,
                                                 !.notify_webhook = hook]]
    /\ prov' = [prov EXCEPT ![j] =
                   IF launch_training
                   THEN [pc |-> "spawned", retry_count |-> 0, calls |-> 0]
                   ELSE @]
    /\ UNCHANGED <<PERSISTENT_WORKER_ENABLED, logs, cleanup_tasks, workers,
                   instances, destroy_calls, webhooks, poll, handed, sweep,
                   starts, ssh_calls, active_connections, closed, delivered>>

\* a submission to a table that may hold the row of an upgraded deployment:
\* rows are created in id order (created_at ascending), after that row
Submit(j, hook) ==
    /\ j # LegacyJob
    /\ \A k \in Jobs \ {LegacyJob} : k < j => jobs[k].row # "none"
    /\ start_training(j, hook)

\* a submission to the table of a fresh deployment: rows are created in id
\* order from the first id
SubmitNext(j) ==
    /\ \A k \in Jobs : k < j => jobs[k].row # "none"
    /\ start_training(j, FALSE)

\* get_db commits the request's session after the handler returned
SubmitCommit(j) ==
    /\ reply' = Reply("start_training", 202)
    /\ jobs[j].row = "uncommitted"
    /\ jobs' = [jobs EXCEPT ![j].row = "committed"]
    /\ UNCHANGED <<PERSISTENT_WORKER_ENABLED, logs, prov, cleanup_tasks,
                   workers, instances, destroy_calls, webhooks, poll, handed,
                   sweep, starts, ssh_calls, active_connections, closed,
                   delivered>>

\* the instance id the provider gives the next launch
FreshInstance ==
    CHOOSE i \in Instances :
        instances[i] = "absent" /\ \A k \in Instances : k < i => instances[k] # "absent"

\* lambda_gpu.destroy_instance called by `by` on each instance of ids: the
\* calls are recorded; the provider terminates an instance or answers with an
\* error
DestroyMany(ids, by) ==
    /\ destroy_calls' = destroy_calls \cup { <<i, by>> : i \in ids }
    /\ \E ok \in SUBSET { i \in ids : instances[i] \notin {"absent", "terminated"} } :
         instances' = [i \in Instances |->
                          IF i \in ok THEN "terminated" ELSE instances[i]]

destroy_instance(i, by) == DestroyMany({i}, by)

\* the row's training_logs rows go with it (ON DELETE CASCADE)
delete_training_job(j) ==
    /\ Visible(j)
    /\ jobs' = [jobs EXCEPT ![j] = [NoRow EXCEPT !.row = "deleted"]]
    /\ logs' = [logs EXCEPT ![j] = 0]
    /\ IF jobs[j].vultr_instance_id # Null
       THEN destroy_instance(jobs[j].vultr_instance_id, "delete")
       ELSE UNCHANGED <<instances, destroy_calls>>
    /\ reply' = Reply("delete_training_job", 200)
    /\ UNCHANGED <<PERSISTENT_WORKER_ENABLED, prov, cleanup_tasks, workers,
                   webhooks, poll, handed, sweep, starts, ssh_calls,
                   active_connections, closed, delivered>>

\* ------------------------------------------- dedicated provisioning task
\* keyword arguments of the create_gpu_instance call in _provision_and_monitor
ProvisionCallKwargs ==
    { "label", "job_id", "base_model", "task", "max_epochs", "batch_size",
      "learning_rate", "use_lora", "target_accuracy", "api_callback_url",
      "callback_secret", "training_mode", "mission_id" }

\* parameters lambda_gpu.create_gpu_instance declares (it takes no **kwargs)
CreateGpuInstanceParams ==
    { "label", "region", "job_id", "base_model", "task", "max_epochs",
      "batch_size", "learning_rate", "use_lora", "target_accuracy",
      "api_callback_url", "callback_secret" }

\* a Python call with a keyword the callee does not declare raises TypeError
CallBinds(kwargs, params) == kwargs \subseteq params

fire_webhook(j, st) ==
    IF jobs[j].notify_webhook THEN webhooks \cup {<<j, st>>} ELSE webhooks

\* a task that provisions whatever the status of the row it loaded
ProvisionLoadAnyStatus(j) ==
    /\ reply' = NoReply
    /\ prov[j].pc = "spawned"
    /\ prov' = [prov EXCEPT ![j].pc = IF ~Visible(j) THEN "none" ELSE "loaded"]
    /\ UNCHANGED <<PERSISTENT_WORKER_ENABLED, logs, jobs, cleanup_tasks,
                   workers, instances, destroy_calls, webhooks, poll, handed,
                   sweep, starts, ssh_calls, active_connections, closed,
                   delivered>>

\* _provision_and_monitor, up to the guard: the task reads the row
ProvisionLoad(j) ==
    /\ reply' = NoReply
    /\ prov[j].pc = "spawned"
    /\ prov' = [prov EXCEPT ![j].pc =
                   IF ~Visible(j) \/ IsTerminal(j) THEN "none" ELSE "loaded"]
    /\ UNCHANGED <<PERSISTENT_WORKER_ENABLED, logs, jobs, cleanup_tasks,
                   workers, instances, destroy_calls, webhooks, poll, handed,
                   sweep, starts, ssh_calls, active_connections, closed,
                   delivered>>

\* what the provider does with a launch request that reaches it
ProvisionOutcomes == {"ok", "launch_error", "ssh_exhausted"}

\* _update_status(PROVISIONING), then the create_gpu_instance call and what
\* follows it.  When the call binds and the provider launches the instance,
\* the container is started over the remote shell: at the first attempt, and
\* lines 156-173 store the instance on the row, fire the provisioning webhook
\* and set TRAINING, or at none of max_ssh_retries, and create_gpu_instance
\* destroys the instance and raises.  The call passes training_mode and
\* mission_id, which the
\* callee does not declare, so it raises TypeError before any request reaches
\* the provider, whatever the provider would have answered.
ProvisionCall(j, outcome) ==
    /\ reply' = NoReply
    /\ prov[j].pc = "loaded"
    /\ IF /\ CallBinds(ProvisionCallKwargs, CreateGpuInstanceParams)
          /\ outcome = "ok"
          /\ \E i \in Instances : instances[i] = "absent"
       THEN /\ instances' = [instances EXCEPT ![FreshInstance] = "active"]
            /\ ssh_calls' = [ssh_calls EXCEPT ![FreshInstance] = 1]
            /\ jobs' = IF Visible(j)
                       THEN [jobs EXCEPT
                               ![j].vultr_instance_id = FreshInstance,
                               ![j].status = "TRAINING",
                               ![j].updated_at = 0]
                       ELSE jobs
            /\ webhooks' = fire_webhook(j, "provisioning")
            /\ prov' = [prov EXCEPT ![j].pc = "none", ![j].calls = @ + 1]
            /\ UNCHANGED destroy_calls
       ELSE /\ jobs' = IF Visible(j)
                       THEN [jobs EXCEPT ![j].status = "PROVISIONING",
                                         ![j].updated_at = 0]
                       ELSE jobs
            /\ prov' = [prov EXCEPT ![j].pc = "raised", ![j].calls = @ + 1]
            /\ UNCHANGED webhooks
            /\ IF /\ CallBinds(ProvisionCallKwargs, CreateGpuInstanceParams)
                  /\ outcome = "ssh_exhausted"
                  /\ \E i \in Instances : instances[i] = "absent"
               THEN /\ ssh_calls' =
                         [ssh_calls EXCEPT ![FreshInstance] = max_ssh_retries]
                    /\ destroy_calls' = destroy_calls
                         \cup {<<FreshInstance, "create_gpu_instance">>}
                    /\ instances' \in
                         { [instances EXCEPT ![FreshInstance] = "terminated"],
                           [instances EXCEPT ![FreshInstance] = "active"] }
               ELSE UNCHANGED <<instances, destroy_calls, ssh_calls>>
    /\ UNCHANGED <<PERSISTENT_WORKER_ENABLED, logs, cleanup_tasks, workers,
                   poll, handed, sweep, starts, active_connections, closed,
                   delivered>>

\* a retry branch whose comparison allows one attempt more
ProvisionRetryOnceMore(j) ==
    /\ reply' = NoReply
    /\ prov[j].pc = "raised"
    /\ Visible(j)
    /\ prov[j].retry_count < MAX_PROVISION_RETRIES
    /\ jobs' = [jobs EXCEPT ![j].status = "QUEUED", ![j].updated_at = 0]
    /\ handed' = [handed EXCEPT ![j] = {}]
    /\ prov' = [prov EXCEPT ![j].pc = "sleeping"]
    /\ UNCHANGED <<PERSISTENT_WORKER_ENABLED, logs, cleanup_tasks, workers,
                   instances, destroy_calls, webhooks, poll, sweep, starts,
                   ssh_calls, active_connections, closed, delivered>>

\* _provision_with_retry, except branch with retries left: back to QUEUED,
\* then the backoff sleep
ProvisionRetry(j) ==
    /\ reply' = NoReply
    /\ prov[j].pc = "raised"
    /\ Visible(j)
    /\ prov[j].retry_count < MAX_PROVISION_RETRIES - 1
    /\ jobs' = [jobs EXCEPT ![j].status = "QUEUED", ![j].updated_at = 0]
    /\ handed' = [handed EXCEPT ![j] = {}]
    /\ prov' = [prov EXCEPT ![j].pc = "sleeping"]
    /\ UNCHANGED <<PERSISTENT_WORKER_ENABLED, logs, cleanup_tasks, workers,
                   instances, destroy_calls, webhooks, poll, sweep, starts,
                   ssh_calls, active_connections, closed, delivered>>

\* the sleep is over: create_task(_provision_with_retry(job_id, retry_count + 1))
ProvisionRespawn(j) ==
    /\ reply' = NoReply
    /\ prov[j].pc = "sleeping"
    /\ prov' = [prov EXCEPT ![j].pc = "spawned",
                            ![j].retry_count = @ + 1]
    /\ UNCHANGED <<PERSISTENT_WORKER_ENABLED, logs, jobs, cleanup_tasks,
                   workers, instances, destroy_calls, webhooks, poll, handed,
                   sweep, starts, ssh_calls, active_connections, closed,
                   delivered>>

\* _provision_with_retry, except branch with retries exhausted
ProvisionExhausted(j) ==
    /\ reply' = NoReply
    /\ prov[j].pc = "raised"
    /\ Visible(j)
    /\ prov[j].retry_count >= MAX_PROVISION_RETRIES - 1
    /\ jobs' = [jobs EXCEPT ![j].error_message = ProvisionFailedMessage,
                            ![j].status = "FAILED",
                            ![j].updated_at = 0]
    /\ webhooks' = fire_webhook(j, "failed")
    /\ prov' = [prov EXCEPT ![j].pc = "none"]
    /\ UNCHANGED <<PERSISTENT_WORKER_ENABLED, logs, cleanup_tasks, workers,
                   instances, destroy_calls, poll, handed, sweep, starts,
                   ssh_calls, active_connections, closed, delivered>>

\* _provision_with_retry, except branch when the row is gone: nothing to do
ProvisionJobGone(j) ==
    /\ reply' = NoReply
    /\ prov[j].pc = "raised"
    /\ ~Visible(j)
    /\ prov' = [prov EXCEPT ![j].pc = "none"]
    /\ UNCHANGED <<PERSISTENT_WORKER_ENABLED, logs, jobs, cleanup_tasks,
                   workers, instances, destroy_calls, webhooks, poll, handed,
                   sweep, starts, ssh_calls, active_connections, closed,
                   delivered>>

\* ------------------------------------------------------ worker callbacks
\* The gpu-worker container on instance p sends the callbacks, with the
\* shared secret, while it runs the job it was handed (run_persistent_loop).
\* A request with another secret can come from anywhere, at any time.
Running(p, j) ==
    /\ instances[p] = "worker"
    /\ poll[p].pc \in {"running", "failing"}
    /\ poll[p].job = j

\* a gate that looks the job up and never compares the secret
CallbackGateOpen(j, secret) == IF ~Visible(j) THEN 404 ELSE 200

\* the answer every callback gives before it touches the row: 403 on a wrong
\* secret, then 404 on an unknown job id; 200 when the handler goes on
CallbackGate(j, secret) ==
    IF secret # CALLBACK_SECRET THEN 403
    ELSE IF ~Visible(j) THEN 404
    ELSE 200

\* what the status callback writes on the job row
StatusRow(job, payload) ==
    [job EXCEPT
       !.status = "TRAINING",
       !.epochs_completed = payload.epochs_completed,
       !.current_epoch = payload.current_epoch,
       !.last_progress_at = 0,
       !.result_loss =
           IF payload.current_loss # Null THEN payload.current_loss ELSE @,
       !.result_accuracy =
           IF payload.current_accuracy # Null
           THEN payload.current_accuracy ELSE @]

\* ------------------------------------------------------------ observers
\* websocket_training_progress and websocket_logs, up to the receive loop:
\* connect() accepts the socket and adds it to the set of the job id
ws_connect(m, j, s) ==
    /\ reply' = NoReply
    /\ s \notin closed
    /\ \A n \in Managers, k \in Jobs : s \notin active_connections[n][k]
    /\ active_connections' = [active_connections EXCEPT ![m][j] = @ \cup {s}]
    /\ UNCHANGED <<PERSISTENT_WORKER_ENABLED, jobs, prov, cleanup_tasks,
                   workers, instances, destroy_calls, webhooks, poll, handed,
                   sweep, logs, starts, ssh_calls, closed, delivered>>

\* the observer goes away; the server has not noticed yet
peer_closes(s) ==
    /\ reply' = NoReply
    /\ s \notin closed
    /\ \E m \in Managers, j \in Jobs : s \in active_connections[m][j]
    /\ closed' = closed \cup {s}
    /\ UNCHANGED <<PERSISTENT_WORKER_ENABLED, jobs, prov, cleanup_tasks,
                   workers, instances, destroy_calls, webhooks, poll, handed,
                   sweep, logs, starts, ssh_calls, active_connections,
                   delivered>>

\* receive_text raises WebSocketDisconnect and the endpoint calls
\* disconnect(); the socket is gone for good
ws_disconnect(m, j, s) ==
    /\ reply' = NoReply
    /\ s \in closed
    /\ s \in active_connections[m][j]
    /\ active_connections' = [active_connections EXCEPT ![m][j] = @ \ {s}]
    /\ closed' = closed \ {s}
    /\ UNCHANGED <<PERSISTENT_WORKER_ENABLED, jobs, prov, cleanup_tasks,
                   workers, instances, destroy_calls, webhooks, poll, handed,
                   sweep, logs, starts, ssh_calls, delivered>>

\* broadcast: for connection in active_connections[job_id]: send_json.
\* send_json raises on a socket whose peer is gone, nothing catches it, and
\* the loop ends there; a set is iterated in no particular order
BroadcastRaises(m, j) == active_connections[m][j] \cap closed # {}

BroadcastDeliveries(m, j) ==
    IF BroadcastRaises(m, j)
    THEN SUBSET (active_connections[m][j] \ closed)
    ELSE {active_connections[m][j]}

\* what a callback answers: the gate's refusal, or 200, or the 500 of the
\* exception its broadcast let through
CallbackAnswer(m, j, secret) ==
    IF CallbackGate(j, secret) = 200 /\ BroadcastRaises(m, j)
    THEN 500
    ELSE CallbackGate(j, secret)

\* the broadcast of a callback the gate let in
CallbackBroadcast(m, j, secret) ==
    IF CallbackGate(j, secret) = 200
    THEN delivered' \in BroadcastDeliveries(m, j)
    ELSE delivered' = delivered

\* callback_status, sent by send_status from the training loop
callback_status(p, j, payload, secret) ==
    /\ secret = CALLBACK_SECRET => (Running(p, j) /\ poll[p].pc = "running")
    /\ jobs' = IF CallbackGate(j, secret) = 200
               THEN [jobs EXCEPT ![j] = StatusRow(@, payload)]
               ELSE jobs
    /\ reply' = Reply("callback_status", CallbackAnswer("progress", j, secret))
    /\ CallbackBroadcast("progress", j, secret)
    /\ UNCHANGED <<PERSISTENT_WORKER_ENABLED, logs, prov, cleanup_tasks,
                   workers, instances, destroy_calls, webhooks, poll, handed,
                   sweep, starts, ssh_calls, active_connections, closed>>

\* a heartbeat that also marks the job as running, as the status callback does
HeartbeatRowMarkingTraining(job, payload) ==
    [job EXCEPT !.status = "TRAINING",
                !.current_epoch =
                    IF payload.current_epoch # Null
                    THEN payload.current_epoch ELSE @]

\* what the heartbeat callback writes on the job row: last_heartbeat_at,
\* worker_status and the gpu readings are no columns of training_jobs, so
\* only the progress fields the body carries are stored
HeartbeatJobRow(job, payload) ==
    [job EXCEPT !.current_epoch =
                    IF payload.current_epoch # Null
                    THEN payload.current_epoch ELSE @]

\* callback_heartbeat, sent by _heartbeat_loop while the container runs a job
callback_heartbeat(p, j, payload, secret) ==
    /\ secret = CALLBACK_SECRET => Running(p, j)
    /\ jobs' = IF CallbackGate(j, secret) = 200
               THEN [jobs EXCEPT ![j] = HeartbeatJobRow(@, payload)]
               ELSE jobs
    /\ reply' = Reply("callback_heartbeat", CallbackGate(j, secret))
    /\ UNCHANGED <<PERSISTENT_WORKER_ENABLED, logs, prov, cleanup_tasks,
                   workers, instances, destroy_calls, webhooks, poll, handed,
                   sweep, starts, ssh_calls, active_connections, closed,
                   delivered>>

\* callback_log, sent by send_log: one more training_logs row for the job
callback_log(p, j, secret) ==
    /\ secret = CALLBACK_SECRET => Running(p, j)
    /\ logs[j] < MaxLogs
    /\ logs' = IF CallbackGate(j, secret) = 200
               THEN [logs EXCEPT ![j] = @ + 1]
               ELSE logs
    /\ reply' = Reply("callback_log", CallbackAnswer("logs", j, secret))
    /\ CallbackBroadcast("logs", j, secret)
    /\ UNCHANGED <<PERSISTENT_WORKER_ENABLED, jobs, prov, cleanup_tasks,
                   workers, instances, destroy_calls, webhooks, poll, handed,
                   sweep, starts, ssh_calls, active_connections, closed>>

\* what the complete callback writes on the job row
CompleteRow(job, payload) ==
    [job EXCEPT !.status = "COMPLETED",
                !.result_accuracy = payload.result_accuracy,
                !.result_loss = payload.result_loss,
                !.epochs_completed = payload.epochs_completed,
                !.last_progress_at = 0]

\* callback_complete, sent by send_complete when the training function
\* returned; the worker then polls again
callback_complete(p, j, payload, secret) ==
    /\ secret = CALLBACK_SECRET => (Running(p, j) /\ poll[p].pc = "running")
    /\ IF CallbackGate(j, secret) = 200
       THEN /\ jobs' = [jobs EXCEPT ![j] = CompleteRow(@, payload)]
            /\ cleanup_tasks' = IF BroadcastRaises("progress", j)
                                THEN cleanup_tasks
                                ELSE cleanup_tasks \cup {j}
       ELSE UNCHANGED <<jobs, cleanup_tasks>>
    /\ reply' = Reply("callback_complete", CallbackAnswer("progress", j, secret))
    /\ CallbackBroadcast("progress", j, secret)
    /\ poll' = IF secret = CALLBACK_SECRET
               THEN [poll EXCEPT ![p] = [pc |-> "idle", job |-> Null]]
               ELSE poll
    /\ UNCHANGED <<PERSISTENT_WORKER_ENABLED, logs, prov, workers, instances,
                   destroy_calls, webhooks, handed, sweep, starts, ssh_calls,
                   active_connections, closed>>

\* what the fail callback writes on the job row
FailRow(job) ==
    [job EXCEPT !.status = "FAILED",
                !.error_message = WorkerErrorMessage,
                !.last_progress_at = 0]

\* callback_fail: run_with_retry sends it when the last attempt raised, and
\* run_persistent_loop sends it again when it catches what run_with_retry
\* re-raised
callback_fail(p, j, secret) ==
    /\ secret = CALLBACK_SECRET => Running(p, j)
    /\ IF CallbackGate(j, secret) = 200
       THEN /\ jobs' = [jobs EXCEPT ![j] = FailRow(@)]
            /\ cleanup_tasks' = IF BroadcastRaises("progress", j)
                                THEN cleanup_tasks
                                ELSE cleanup_tasks \cup {j}
       ELSE UNCHANGED <<jobs, cleanup_tasks>>
    /\ reply' = Reply("callback_fail", CallbackAnswer("progress", j, secret))
    /\ CallbackBroadcast("progress", j, secret)
    /\ poll' = IF secret # CALLBACK_SECRET THEN poll
               ELSE [poll EXCEPT ![p] =
                       IF poll[p].pc = "running"
                       THEN [pc |-> "failing", job |-> j]
                       ELSE [pc |-> "idle", job |-> Null]]
    /\ UNCHANGED <<PERSISTENT_WORKER_ENABLED, logs, prov, workers, instances,
                   destroy_calls, webhooks, handed, sweep, starts, ssh_calls,
                   active_connections, closed>>

\* the job's instance is the active persistent worker's instance
IsPersistentInstance(inst) ==
    /\ PERSISTENT_WORKER_ENABLED
    /\ get_persistent_instance_id(workers) # Null
    /\ inst = get_persistent_instance_id(workers)

\* cleanup_job, the task scheduled by the complete and fail callbacks
cleanup_job(j) ==
    /\ reply' = NoReply
    /\ j \in cleanup_tasks
    /\ cleanup_tasks' = cleanup_tasks \ {j}
    /\ IF ~Visible(j) \/ jobs[j].vultr_instance_id = Null
       THEN UNCHANGED <<workers, instances, destroy_calls>>
       ELSE IF IsPersistentInstance(jobs[j].vultr_instance_id)
            THEN /\ workers' = set_worker_idle(workers)
                 /\ UNCHANGED <<instances, destroy_calls>>
            ELSE /\ destroy_instance(jobs[j].vultr_instance_id, "cleanup")
                 /\ UNCHANGED workers
    /\ UNCHANGED <<PERSISTENT_WORKER_ENABLED, logs, jobs, prov, webhooks,
                   poll, handed, sweep, starts, ssh_calls,
                   active_connections, closed, delivered>>

\* ----------------------------------------------------------- cancellation
\* what the cancel writes on the job row
CancelRow(job) ==
    [job EXCEPT !.status = "CANCELLED", !.error_message = CancelledMessage]

\* a cancel without the status check of lines 248-255
cancel_any_status(j) ==
    /\ Visible(j)
    /\ IF jobs[j].vultr_instance_id # Null
       THEN destroy_instance(jobs[j].vultr_instance_id, "cancel")
       ELSE UNCHANGED <<instances, destroy_calls>>
    /\ jobs' = [jobs EXCEPT ![j] = CancelRow(@)]
    /\ reply' = Reply("cancel_training_job", 200)
    /\ UNCHANGED <<PERSISTENT_WORKER_ENABLED, logs, prov, cleanup_tasks,
                   workers, webhooks, poll, handed, sweep, starts, ssh_calls,
                   active_connections, closed, delivered>>

\* a cancel that gives up when the provider did not terminate the instance
cancel_unless_destroy_fails(j) ==
    /\ Visible(j)
    /\ IF IsTerminal(j)
       THEN /\ reply' = Reply("cancel_training_job", 400)
            /\ UNCHANGED <<jobs, instances, destroy_calls>>
       ELSE /\ IF jobs[j].vultr_instance_id # Null
               THEN destroy_instance(jobs[j].vultr_instance_id, "cancel")
               ELSE UNCHANGED <<instances, destroy_calls>>
            /\ IF jobs[j].vultr_instance_id # Null
                  /\ instances'[jobs[j].vultr_instance_id] # "terminated"
               THEN /\ UNCHANGED jobs
                    /\ reply' = Reply("cancel_training_job", 500)
               ELSE /\ jobs' = [jobs EXCEPT ![j] = CancelRow(@)]
                    /\ reply' = Reply("cancel_training_job", 200)
    /\ UNCHANGED <<PERSISTENT_WORKER_ENABLED, logs, prov, cleanup_tasks,
                   workers, webhooks, poll, handed, sweep, starts, ssh_calls,
                   active_connections, closed, delivered>>

\* cancel_training_job: a terminal job is refused with 400 before anything
\* is written; otherwise the instance, if one is recorded, is destroyed on a
\* best-effort basis (a provider error is swallowed) and the job is CANCELLED
cancel_training_job(j) ==
    /\ Visible(j)
    /\ IF IsTerminal(j)
       THEN /\ reply' = Reply("cancel_training_job", 400)
            /\ UNCHANGED <<jobs, instances, destroy_calls>>
       ELSE /\ IF jobs[j].vultr_instance_id # Null
               THEN destroy_instance(jobs[j].vultr_instance_id, "cancel")
               ELSE UNCHANGED <<instances, destroy_calls>>
            /\ jobs' = [jobs EXCEPT ![j] = CancelRow(@)]
            /\ reply' = Reply("cancel_training_job", 200)
    /\ UNCHANGED <<PERSISTENT_WORKER_ENABLED, logs, prov, cleanup_tasks,
                   workers, webhooks, poll, handed, sweep, starts, ssh_calls,
                   active_connections, closed, delivered>>

\* ------------------------------------------------------ next-job polling
QueuedJobs == { j \in Jobs : Visible(j) /\ jobs[j].status = "QUEUED" }

\* ORDER BY created_at ASC LIMIT 1
OldestQueued == CHOOSE j \in QueuedJobs : \A k \in QueuedJobs : j <= k

\* the worker container on instance p is running and between jobs
CanPoll(p) == instances[p] = "worker" /\ poll[p].pc = "idle"

\* worker_next_job on a wrong secret: 403 before the heartbeat
PollForbidden(secret) ==
    /\ secret # CALLBACK_SECRET
    /\ reply' = Reply("worker_next_job", 403)
    /\ UNCHANGED <<PERSISTENT_WORKER_ENABLED, logs, jobs, prov,
                   cleanup_tasks, workers, instances, destroy_calls,
                   webhooks, poll, handed, sweep, starts, ssh_calls,
                   active_connections, closed, delivered>>

\* worker_next_job up to the SELECT: heartbeat, then the oldest QUEUED row
PollSelect(p) ==
    /\ reply' = NoReply
    /\ CanPoll(p)
    /\ QueuedJobs # {}
    /\ workers' = worker_heartbeat(workers)
    /\ poll' = [poll EXCEPT ![p] = [pc |-> "selected", job |-> OldestQueued]]
    /\ UNCHANGED <<PERSISTENT_WORKER_ENABLED, logs, jobs, prov,
                   cleanup_tasks, instances, destroy_calls, webhooks, handed,
                   sweep, starts, ssh_calls, active_connections, closed,
                   delivered>>

\* worker_next_job when the SELECT finds nothing: release the worker, 204
PollNoWork(p) ==
    /\ reply' = Reply("worker_next_job", 204)
    /\ CanPoll(p)
    /\ QueuedJobs = {}
    /\ workers' = set_worker_idle(worker_heartbeat(workers))
    /\ UNCHANGED <<PERSISTENT_WORKER_ENABLED, logs, jobs, prov,
                   cleanup_tasks, instances, destroy_calls, webhooks, poll,
                   handed, sweep, starts, ssh_calls, active_connections,
                   closed, delivered>>

\* a claim that also records the worker's instance on the job
ClaimRowBindingInstance(job) ==
    [job EXCEPT !.status = "TRAINING", !.last_progress_at = 0,
                !.vultr_instance_id = get_persistent_instance_id(workers)]

\* what the claim writes on the job row
ClaimRow(job) ==
    [job EXCEPT !.status = "TRAINING", !.last_progress_at = 0]

\* worker_next_job from the claim on: commit, set_worker_busy, descriptor;
\* the commit fails, and the request with it, when the row is gone
PollClaim(p) ==
    /\ poll[p].pc = "selected"
    /\ LET j == poll[p].job IN
        IF Visible(j)
        THEN /\ jobs' = [jobs EXCEPT ![j] = ClaimRow(@)]
             /\ workers' = set_worker_busy(workers, j)
             /\ handed' = [handed EXCEPT ![j] = @ \cup {p}]
        ELSE UNCHANGED <<jobs, workers, handed>>
    /\ reply' = IF Visible(poll[p].job)
                THEN [op |-> "worker_next_job", code |-> 200,
                      job |-> poll[p].job]
                ELSE Reply("worker_next_job", 500)
    /\ poll' = [poll EXCEPT ![p] =
                   IF Visible(poll[p].job)
                   THEN [pc |-> "running", job |-> poll[p].job]
                   ELSE [pc |-> "idle", job |-> Null]]
    /\ UNCHANGED <<PERSISTENT_WORKER_ENABLED, logs, prov, cleanup_tasks,
                   instances, destroy_calls, webhooks, sweep, starts,
                   ssh_calls, active_connections, closed, delivered>>

\* -------------------------------------------------- heartbeat monitor sweep
StaleJobs ==
    { j \in Jobs :
        /\ Visible(j)
        /\ jobs[j].status = "TRAINING"
        /\ \/ jobs[j].last_progress_at = Null
           \/ jobs[j].last_progress_at > HEARTBEAT_TIMEOUT_MINUTES }

\* int(time_since_heartbeat // 60); Null where the stamp is NULL and the
\* conversion of inf // 60 raises
MinutesSince(j) == jobs[j].last_progress_at

SweepRecords == { [job |-> j, minutes |-> MinutesSince(j)] : j \in StaleJobs }

\* instance handling and webhook of the stale jobs in S, done before the commit
SweepHandle(S) ==
    LET bound == { j \in S : jobs[j].vultr_instance_id # Null }
        shared == { j \in bound : IsPersistentInstance(jobs[j].vultr_instance_id) }
    IN /\ workers' = IF shared # {} THEN set_worker_idle(workers) ELSE workers
       /\ DestroyMany({ jobs[j].vultr_instance_id : j \in bound \ shared }, "sweep")
       /\ webhooks' = webhooks \cup
              { <<j, "failed">> : j \in { k \in S : jobs[k].notify_webhook } }

\* _check_stale_heartbeats up to the commit: the SELECT and the loop over
\* its result.  A stale job with a NULL last_progress_at makes the loop
\* raise, after it handled the jobs that came before it in the result.
SweepSelect ==
    /\ reply' = NoReply
    /\ sweep.pc = "idle"
    /\ StaleJobs # {}
    /\ IF \E j \in StaleJobs : MinutesSince(j) = Null
       THEN /\ \E S \in SUBSET { j \in StaleJobs : MinutesSince(j) # Null } :
                 SweepHandle(S)
            /\ sweep' = [pc |-> "raised", stale |-> SweepRecords]
       ELSE /\ SweepHandle(StaleJobs)
            /\ sweep' = [pc |-> "commit", stale |-> SweepRecords]
    /\ UNCHANGED <<PERSISTENT_WORKER_ENABLED, logs, jobs, prov,
                   cleanup_tasks, poll, handed, starts, ssh_calls,
                   active_connections, closed, delivered>>

\* the loop raised: the session closes without a commit and monitor_heartbeats
\* logs the error
SweepRaise ==
    /\ reply' = NoReply
    /\ sweep.pc = "raised"
    /\ sweep' = [pc |-> "idle", stale |-> {}]
    /\ UNCHANGED <<PERSISTENT_WORKER_ENABLED, logs, jobs, prov,
                   cleanup_tasks, workers, instances, destroy_calls,
                   webhooks, poll, handed, starts, ssh_calls,
                   active_connections, closed, delivered>>

\* what the sweep writes on a stale job's row
StaleRow(job, n) ==
    [job EXCEPT !.status = "FAILED", !.error_message = NoHeartbeatMessage(n)]

\* _check_stale_heartbeats, the commit after the loop
SweepCommit ==
    /\ reply' = NoReply
    /\ sweep.pc = "commit"
    /\ jobs' = [j \in Jobs |->
                  IF Visible(j) /\ \E r \in sweep.stale : r.job = j
                  THEN StaleRow(jobs[j],
                                (CHOOSE r \in sweep.stale : r.job = j).minutes)
                  ELSE jobs[j]]
    /\ sweep' = [pc |-> "idle", stale |-> {}]
    /\ UNCHANGED <<PERSISTENT_WORKER_ENABLED, logs, prov, cleanup_tasks,
                   workers, instances, destroy_calls, webhooks, poll, handed,
                   starts, ssh_calls, active_connections, closed, delivered>>

\* ------------------------------------------------ persistent worker manager
RemoveAt(ws, i) == SubSeq(ws, 1, i - 1) \o SubSeq(ws, i + 1, Len(ws))

\* the status the provider reports for an instance that exists
ProviderStatus(i) ==
    IF instances[i] \in {"active", "worker"} THEN "active" ELSE instances[i]

\* start_worker's check of the existing record: a failed lookup counts as
\* not running
InstanceRunning(w) ==
    /\ w.lambda_instance_id # Null
    /\ instances[w.lambda_instance_id] # "absent"
    /\ ProviderStatus(w.lambda_instance_id) = "running"

NewWorker(i) ==
    [ lambda_instance_id |-> i, status |-> "starting", last_seen_at |-> Null,
      current_job_id |-> Null ]

\* the check at the head of start_worker: no record, or a record the check
\* takes for stale
MayStart ==
    HasActiveWorker(workers) => ~InstanceRunning(workers[ActiveIndex(workers)])

\* the table after the stale record was deleted and committed
WithoutStale ==
    IF HasActiveWorker(workers)
    THEN RemoveAt(workers, ActiveIndex(workers))
    ELSE workers

\* start_worker: the stale record is deleted and committed before the launch;
\* the outcome is the provider's and the remote shell's.  The bootstrap loop
\* runs inside the step: it succeeds at its first attempt or fails at all
\* max_ssh_retries of them
start_worker(outcome) ==
    /\ reply' = NoReply
    /\ \E i \in Instances : instances[i] = "absent"
    /\ MayStart
    /\ LET rows == WithoutStale
           i == FreshInstance
       IN CASE outcome = "launch_error" ->
                 /\ workers' = rows
                 /\ UNCHANGED <<instances, destroy_calls, ssh_calls>>
            [] outcome = "active_timeout" ->
                 /\ workers' = rows
                 /\ instances' = [instances EXCEPT ![i] = "booting"]
                 /\ UNCHANGED <<destroy_calls, ssh_calls>>
            [] outcome = "ssh_exhausted" ->
                 /\ workers' = rows
                 /\ ssh_calls' = [ssh_calls EXCEPT ![i] = max_ssh_retries]
                 /\ destroy_calls' = destroy_calls \cup {<<i, "start_worker">>}
                 /\ instances' \in { [instances EXCEPT ![i] = "terminated"],
                                     [instances EXCEPT ![i] = "active"] }
            [] outcome = "ok" ->
                 /\ workers' = Append(rows, NewWorker(i))
                 /\ ssh_calls' = [ssh_calls EXCEPT ![i] = 1]
                 /\ instances' = [instances EXCEPT ![i] = "worker"]
                 /\ UNCHANGED destroy_calls
    /\ UNCHANGED <<PERSISTENT_WORKER_ENABLED, logs, jobs, prov,
                   cleanup_tasks, webhooks, poll, handed, sweep, starts,
                   active_connections, closed, delivered>>

\* start_worker taken apart at its awaits, for requests that overlap.
\* StartLaunch: the check, the delete of the stale record and its commit, and
\* create_gpu_instance up to the instance being active
LaunchOutcomes == {"launch_error", "active_timeout", "active"}

StartLaunch(outcome) ==
    /\ reply' = NoReply
    /\ \E i \in Instances : instances[i] = "absent"
    /\ MayStart
    /\ workers' = WithoutStale
    /\ LET i == FreshInstance
       IN CASE outcome = "launch_error" ->
                 UNCHANGED <<instances, starts>>
            [] outcome = "active_timeout" ->
                 /\ instances' = [instances EXCEPT ![i] = "booting"]
                 /\ UNCHANGED starts
            [] outcome = "active" ->
                 /\ instances' = [instances EXCEPT ![i] = "active"]
                 /\ starts' = starts \cup {i}
    /\ UNCHANGED <<PERSISTENT_WORKER_ENABLED, logs, jobs, prov,
                   cleanup_tasks, destroy_calls, webhooks, poll, handed,
                   sweep, ssh_calls, active_connections, closed, delivered>>

\* for attempt in range(max_ssh_retries) stops after one attempt more
SshLoopOneMore(n) == n < max_ssh_retries + 1

\* for attempt in range(max_ssh_retries): another attempt may be made
SshLoopContinues(n) == n < max_ssh_retries

\* one pass of the bootstrap loop on instance i: _ssh_execute returns, and
\* the record is created and committed, or it raises, and after the last
\* attempt the instance is destroyed and RuntimeError ends the request
StartSsh(i, ok) ==
    /\ reply' = NoReply
    /\ i \in starts
    /\ SshLoopContinues(ssh_calls[i])
    /\ ssh_calls' = [ssh_calls EXCEPT ![i] = @ + 1]
    /\ IF ok
       THEN /\ workers' = Append(workers, NewWorker(i))
            /\ instances' = [instances EXCEPT ![i] = "worker"]
            /\ starts' = starts \ {i}
            /\ UNCHANGED destroy_calls
       ELSE IF SshLoopContinues(ssh_calls'[i])
       THEN UNCHANGED <<workers, instances, starts, destroy_calls>>
       ELSE /\ destroy_calls' = destroy_calls \cup {<<i, "start_worker">>}
            /\ instances' \in { [instances EXCEPT ![i] = "terminated"],
                                [instances EXCEPT ![i] = "active"] }
            /\ starts' = starts \ {i}
            /\ UNCHANGED workers
    /\ UNCHANGED <<PERSISTENT_WORKER_ENABLED, logs, jobs, prov,
                   cleanup_tasks, webhooks, poll, handed, sweep,
                   active_connections, closed, delivered>>

StartOutcomes == {"launch_error", "active_timeout", "ssh_exhausted", "ok"}

\* a stop that marks the record only when the instance went away
stop_worker_unless_destroy_fails ==
    /\ reply' = NoReply
    /\ HasActiveWorker(workers)
    /\ destroy_instance(workers[ActiveIndex(workers)].lambda_instance_id,
                        "stop_worker")
    /\ workers' =
         IF instances'[workers[ActiveIndex(workers)].lambda_instance_id]
                = "terminated"
         THEN [workers EXCEPT ![ActiveIndex(workers)].status = "terminated"]
         ELSE workers
    /\ UNCHANGED <<PERSISTENT_WORKER_ENABLED, logs, jobs, prov, cleanup_tasks,
                   webhooks, poll, handed, sweep, starts, ssh_calls,
                   active_connections, closed, delivered>>

\* stop_worker: destroy_instance is tried, and whatever it did the record is
\* marked terminated; with no active record it raises before anything
stop_worker ==
    /\ reply' = NoReply
    /\ HasActiveWorker(workers)
    /\ destroy_instance(workers[ActiveIndex(workers)].lambda_instance_id,
                        "stop_worker")
    /\ workers' = [workers EXCEPT ![ActiveIndex(workers)].status = "terminated"]
    /\ UNCHANGED <<PERSISTENT_WORKER_ENABLED, logs, jobs, prov,
                   cleanup_tasks, webhooks, poll, handed, sweep, starts,
                   ssh_calls, active_connections, closed, delivered>>

\* a status request that demotes the worker whatever the age of its stamp
get_status_any_age ==
    /\ reply' = NoReply
    /\ HasActiveWorker(workers)
    /\ workers[ActiveIndex(workers)].last_seen_at # Null
    /\ workers[ActiveIndex(workers)].status \in {"online", "busy"}
    /\ workers' = [workers EXCEPT ![ActiveIndex(workers)].status = "offline"]
    /\ UNCHANGED <<PERSISTENT_WORKER_ENABLED, logs, jobs, prov,
                   cleanup_tasks, instances, destroy_calls, webhooks, poll,
                   handed, sweep, starts, ssh_calls, active_connections,
                   closed, delivered>>

\* get_status, when it demotes a silent worker
get_status ==
    /\ reply' = NoReply
    /\ HasActiveWorker(workers)
    /\ LET w == workers[ActiveIndex(workers)] IN
        /\ w.last_seen_at # Null
        /\ w.last_seen_at * 60 > WORKER_OFFLINE_TIMEOUT_SECONDS
        /\ w.status \in {"online", "busy"}
    /\ workers' = [workers EXCEPT ![ActiveIndex(workers)].status = "offline"]
    /\ UNCHANGED <<PERSISTENT_WORKER_ENABLED, logs, jobs, prov,
                   cleanup_tasks, instances, destroy_calls, webhooks, poll,
                   handed, sweep, starts, ssh_calls, active_connections,
                   closed, delivered>>

\* refresh_image: the script stops the worker container and runs a new one,
\* which starts by polling; then the record is marked starting.  When the
\* remote shell raises, whatever the script did before, the record is not
\* touched
refresh_image(ok) ==
    /\ reply' = NoReply
    /\ HasActiveWorker(workers)
    /\ LET n == ActiveIndex(workers)
           i == workers[n].lambda_instance_id
       IN /\ instances[i] = "worker"
          /\ workers' = IF ok
                        THEN [workers EXCEPT ![n].status = "starting"]
                        ELSE workers
          /\ poll' \in IF ok
                       THEN { [poll EXCEPT ![i] = [pc |-> "idle", job |-> Null]] }
                       ELSE { poll,
                              [poll EXCEPT ![i] = [pc |-> "idle", job |-> Null]] }
    /\ UNCHANGED <<PERSISTENT_WORKER_ENABLED, logs, jobs, prov,
                   cleanup_tasks, instances, destroy_calls, webhooks,
                   handed, sweep, starts, ssh_calls, active_connections,
                   closed, delivered>>

\* ------------------------------------------------------------ orphan sweep
\* a selection that takes every PROVISIONING row, whatever its age
OrphanedJobsOfAnyAge ==
    { j \in Jobs : Visible(j) /\ jobs[j].status = "PROVISIONING" }

OrphanedJobs ==
    { j \in Jobs :
        /\ Visible(j)
        /\ jobs[j].status = "PROVISIONING"
        /\ jobs[j].updated_at > ORPHANED_JOB_TIMEOUT_MINUTES }

\* what the orphan sweep writes on an orphaned row
OrphanRow(job) ==
    [job EXCEPT !.status = "FAILED", !.error_message = OrphanedMessage]

cleanup_orphaned_jobs ==
    /\ reply' = NoReply
    /\ OrphanedJobs # {}
    /\ DestroyMany({ jobs[j].vultr_instance_id :
                       j \in { k \in OrphanedJobs : jobs[k].vultr_instance_id # Null } },
                   "orphan")
    /\ jobs' = [j \in Jobs |->
                  IF j \in OrphanedJobs THEN OrphanRow(jobs[j]) ELSE jobs[j]]
    /\ UNCHANGED <<PERSISTENT_WORKER_ENABLED, logs, prov, cleanup_tasks,
                   workers, webhooks, poll, handed, sweep, starts, ssh_calls,
                   active_connections, closed, delivered>>

\* --------------------------------------------------------- specifications
\* the operator starts the persistent worker while no record of one exists
StartFirst(outcome) ==
    /\ Len(workers) = 0
    /\ start_worker(outcome)

StartFirstWorker == StartFirst("ok")

\* Spec: the life of one job, with one persistent worker and no clock
Next ==
    \/ \E j \in Jobs, hook \in BOOLEAN : Submit(j, hook)
    \/ \E j \in Jobs : SubmitCommit(j)
    \/ \E j \in Jobs : delete_training_job(j)
    \/ \E j \in Jobs : ProvisionLoad(j)
    \/ \E j \in Jobs, outcome \in ProvisionOutcomes :
          ProvisionCall(j, outcome)
    \/ \E j \in Jobs : ProvisionRetry(j)
    \/ \E j \in Jobs : ProvisionRespawn(j)
    \/ \E j \in Jobs : ProvisionExhausted(j)
    \/ \E j \in Jobs : ProvisionJobGone(j)
    \/ \E p \in Instances, j \in Jobs, payload \in StatusPayloads :
          callback_status(p, j, payload, CALLBACK_SECRET)
    \/ \E p \in Instances, j \in Jobs, payload \in CompletePayloads :
          callback_complete(p, j, payload, CALLBACK_SECRET)
    \/ \E p \in Instances, j \in Jobs :
          callback_fail(p, j, CALLBACK_SECRET)
    \/ \E j \in Jobs : cleanup_job(j)
    \/ \E j \in Jobs : cancel_training_job(j)
    \/ \E p \in Instances : PollSelect(p)
    \/ \E p \in Instances : PollNoWork(p)
    \/ \E p \in Instances : PollClaim(p)
    \/ StartFirstWorker
    \/ stop_worker

Spec == Init /\ [][Next]_vars

\* SpecPoll: worker containers polling for one job.  A second start_worker
\* replaces the worker's record and launches another instance while the
\* first instance's container keeps polling.
NextPoll ==
    \/ \E j \in Jobs, hook \in BOOLEAN : Submit(j, hook)
    \/ \E j \in Jobs : SubmitCommit(j)
    \/ \E j \in Jobs : ProvisionLoad(j)
    \/ \E j \in Jobs, outcome \in ProvisionOutcomes :
          ProvisionCall(j, outcome)
    \/ \E j \in Jobs : ProvisionRetry(j)
    \/ \E j \in Jobs : ProvisionRespawn(j)
    \/ \E j \in Jobs : ProvisionExhausted(j)
    \/ \E p \in Instances, j \in Jobs, payload \in CompletePayloads :
          callback_complete(p, j, payload, CALLBACK_SECRET)
    \/ \E j \in Jobs : cleanup_job(j)
    \/ \E p \in Instances : PollSelect(p)
    \/ \E p \in Instances : PollNoWork(p)
    \/ \E p \in Instances : PollClaim(p)
    \/ start_worker("ok")

SpecPoll == Init /\ [][NextPoll]_vars

\* SpecMonitor: the heartbeat monitor over an upgraded deployment, with the
\* clock, one persistent worker and the jobs it is handed
NextMonitor ==
    \/ Tick
    \/ SweepSelect
    \/ SweepCommit
    \/ SweepRaise
    \/ get_status
    \/ \E j \in Jobs, hook \in BOOLEAN : Submit(j, hook)
    \/ \E j \in Jobs : SubmitCommit(j)
    \/ \E p \in Instances, j \in Jobs, payload \in StatusPayloads :
          callback_status(p, j, payload, CALLBACK_SECRET)
    \/ \E p \in Instances, j \in Jobs, payload \in CompletePayloads :
          callback_complete(p, j, payload, CALLBACK_SECRET)
    \/ \E p \in Instances, j \in Jobs :
          callback_fail(p, j, CALLBACK_SECRET)
    \/ \E j \in Jobs : cleanup_job(j)
    \/ \E j \in Jobs : cancel_training_job(j)
    \/ \E p \in Instances : PollSelect(p)
    \/ \E p \in Instances : PollNoWork(p)
    \/ \E p \in Instances : PollClaim(p)
    \/ StartFirstWorker

InitMonitor == Upgraded({"TRAINING"})

SpecMonitor == InitMonitor /\ [][NextMonitor]_vars

\* SpecSystem: every operation that can call destroy_instance, with the
\* operations that bind jobs to workers and instances, over an upgraded
\* deployment.  The provisioning task is left to Spec: it calls no destroy and
\* writes no instance id, its create call raising before line 159.  Jobs
\* are submitted without a notify URL: no destroy call depends on one.
NextSystem ==
    \/ Tick
    \/ SweepSelect
    \/ SweepCommit
    \/ SweepRaise
    \/ get_status
    \/ \E j \in Jobs : Submit(j, FALSE)
    \/ \E j \in Jobs : SubmitCommit(j)
    \/ \E p \in Instances, j \in Jobs, payload \in StatusPayloads :
          callback_status(p, j, payload, CALLBACK_SECRET)
    \/ \E p \in Instances, j \in Jobs, payload \in CompletePayloads :
          callback_complete(p, j, payload, CALLBACK_SECRET)
    \/ \E p \in Instances, j \in Jobs :
          callback_fail(p, j, CALLBACK_SECRET)
    \/ \E j \in Jobs : cleanup_job(j)
    \/ \E j \in Jobs : cancel_training_job(j)
    \/ \E p \in Instances : PollSelect(p)
    \/ \E p \in Instances : PollNoWork(p)
    \/ \E p \in Instances : PollClaim(p)
    \/ StartFirstWorker
    \/ cleanup_orphaned_jobs
    \/ stop_worker
    \/ \E outcome \in StartOutcomes \ {"ok"} : StartFirst(outcome)
    \/ \E j \in Jobs : delete_training_job(j)

InitSystem == Upgraded({"PROVISIONING", "TRAINING"})

SpecSystem == InitSystem /\ [][NextSystem]_vars

\* SpecLive: a fresh deployment under fair scheduling.  The server's own
\* tasks are fair: a request that was received is handled to its end, the
\* provisioning task, the cleanup task and the two periodic sweeps run when
\* they can, and time passes.  The worker container and the users are not:
\* they may stay silent.
NextLive ==
    \/ Tick
    \/ SweepSelect
    \/ SweepCommit
    \/ cleanup_orphaned_jobs
    \/ get_status
    \/ \E j \in Jobs, hook \in BOOLEAN : Submit(j, hook)
    \/ \E j \in Jobs : SubmitCommit(j)
    \/ \E j \in Jobs : ProvisionLoad(j)
    \/ \E j \in Jobs, outcome \in ProvisionOutcomes :
          ProvisionCall(j, outcome)
    \/ \E j \in Jobs : ProvisionRetry(j)
    \/ \E j \in Jobs : ProvisionRespawn(j)
    \/ \E j \in Jobs : ProvisionExhausted(j)
    \/ \E p \in Instances, j \in Jobs, payload \in CompletePayloads :
          callback_complete(p, j, payload, CALLBACK_SECRET)
    \/ \E p \in Instances, j \in Jobs :
          callback_fail(p, j, CALLBACK_SECRET)
    \/ \E j \in Jobs : cleanup_job(j)
    \/ \E p \in Instances : PollSelect(p)
    \/ \E p \in Instances : PollNoWork(p)
    \/ \E p \in Instances : PollClaim(p)
    \/ StartFirstWorker

ServerFairness ==
    /\ WF_vars(Tick)
    /\ WF_vars(SweepSelect)
    /\ WF_vars(SweepCommit)
    /\ WF_vars(cleanup_orphaned_jobs)
    /\ \A p \in Instances : WF_vars(PollClaim(p))
    /\ \A j \in Jobs :
          /\ WF_vars(SubmitCommit(j))
          /\ WF_vars(ProvisionLoad(j))
          /\ WF_vars(\E outcome \in ProvisionOutcomes :
                        ProvisionCall(j, outcome))
          /\ WF_vars(ProvisionRetry(j))
          /\ WF_vars(ProvisionRespawn(j))
          /\ WF_vars(ProvisionExhausted(j))
          /\ WF_vars(cleanup_job(j))

SpecLive == Init /\ [][NextLive]_vars /\ ServerFairness

\* SpecAuth: the worker protocol under requests from anyone.  The worker
\* container sends its polls and callbacks with the shared secret; requests
\* with another secret arrive at any time, for any job id.  Jobs are
\* submitted without a notify URL, and there is no clock.
NextAuth ==
    \/ \E j \in Jobs : Submit(j, FALSE)
    \/ \E j \in Jobs : SubmitCommit(j)
    \/ \E j \in Jobs : delete_training_job(j)
    \/ \E j \in Jobs : ProvisionLoad(j)
    \/ \E j \in Jobs, outcome \in ProvisionOutcomes :
          ProvisionCall(j, outcome)
    \/ \E j \in Jobs : ProvisionRetry(j)
    \/ \E j \in Jobs : ProvisionRespawn(j)
    \/ \E j \in Jobs : ProvisionExhausted(j)
    \/ \E j \in Jobs : ProvisionJobGone(j)
    \/ \E p \in Instances, j \in Jobs, payload \in StatusPayloads,
          secret \in Secrets : callback_status(p, j, payload, secret)
    \/ \E p \in Instances, j \in Jobs, payload \in HeartbeatPayloads,
          secret \in Secrets : callback_heartbeat(p, j, payload, secret)
    \/ \E p \in Instances, j \in Jobs, secret \in Secrets :
          callback_log(p, j, secret)
    \/ \E p \in Instances, j \in Jobs, payload \in CompletePayloads,
          secret \in Secrets : callback_complete(p, j, payload, secret)
    \/ \E p \in Instances, j \in Jobs, secret \in Secrets :
          callback_fail(p, j, secret)
    \/ \E j \in Jobs : cleanup_job(j)
    \/ \E j \in Jobs : cancel_training_job(j)
    \/ \E secret \in Secrets : PollForbidden(secret)
    \/ \E p \in Instances : PollSelect(p)
    \/ \E p \in Instances : PollNoWork(p)
    \/ \E p \in Instances : PollClaim(p)
    \/ StartFirstWorker

SpecAuth == Init /\ [][NextAuth]_vars

\* SpecFifo: the queue the persistent worker serves, on a fresh deployment.
\* Jobs are submitted one after the other, by requests that may overlap;
\* workers are started and poll.
NextFifo ==
    \/ \E j \in Jobs : SubmitNext(j)
    \/ \E j \in Jobs : SubmitCommit(j)
    \/ \E p \in Instances, j \in Jobs, payload \in CompletePayloads :
          callback_complete(p, j, payload, CALLBACK_SECRET)
    \/ \E j \in Jobs : cleanup_job(j)
    \/ \E j \in Jobs : cancel_training_job(j)
    \/ \E p \in Instances : PollSelect(p)
    \/ \E p \in Instances : PollNoWork(p)
    \/ \E p \in Instances : PollClaim(p)
    \/ start_worker("ok")

SpecFifo == Init /\ [][NextFifo]_vars

\* SpecEpochs: the progress a worker reports.  Jobs are submitted with the
\* default max_epochs and claimed by the persistent worker; status and
\* heartbeat callbacks carry the shared secret and any body the schemas accept.
NextEpochs ==
    \/ \E j \in Jobs : Submit(j, FALSE)
    \/ \E j \in Jobs : SubmitCommit(j)
    \/ \E p \in Instances, j \in Jobs,
          payload \in StatusPayloads \cup LateStatusPayloads :
          callback_status(p, j, payload, CALLBACK_SECRET)
    \/ \E p \in Instances, j \in Jobs,
          payload \in HeartbeatPayloads \cup LateHeartbeatPayloads :
          callback_heartbeat(p, j, payload, CALLBACK_SECRET)
    \/ \E p \in Instances, j \in Jobs, payload \in CompletePayloads :
          callback_complete(p, j, payload, CALLBACK_SECRET)
    \/ \E j \in Jobs : cleanup_job(j)
    \/ \E p \in Instances : PollSelect(p)
    \/ \E p \in Instances : PollNoWork(p)
    \/ \E p \in Instances : PollClaim(p)
    \/ StartFirstWorker

SpecEpochs == Init /\ [][NextEpochs]_vars

\* SpecWorkers: the operator's start and stop requests, which may overlap,
\* and the provisioning of the jobs submitted meanwhile
NextWorkers ==
    \/ \E outcome \in LaunchOutcomes : StartLaunch(outcome)
    \/ \E i \in Instances, ok \in BOOLEAN : StartSsh(i, ok)
    \/ stop_worker
    \/ \E j \in Jobs : Submit(j, FALSE)
    \/ \E j \in Jobs : SubmitCommit(j)
    \/ \E j \in Jobs : ProvisionLoad(j)
    \/ \E j \in Jobs, outcome \in ProvisionOutcomes :
          ProvisionCall(j, outcome)
    \/ \E j \in Jobs : ProvisionRetry(j)
    \/ \E j \in Jobs : ProvisionRespawn(j)
    \/ \E j \in Jobs : ProvisionExhausted(j)

SpecWorkers == Init /\ [][NextWorkers]_vars

\* SpecBroadcast: a job run by the persistent worker while observers open
\* and leave websockets on its progress and its logs
NextBroadcast ==
    \/ \E j \in Jobs : Submit(j, FALSE)
    \/ \E j \in Jobs : SubmitCommit(j)
    \/ \E p \in Instances, j \in Jobs, payload \in StatusPayloads :
          callback_status(p, j, payload, CALLBACK_SECRET)
    \/ \E p \in Instances, j \in Jobs : callback_log(p, j, CALLBACK_SECRET)
    \/ \E p \in Instances, j \in Jobs, payload \in CompletePayloads :
          callback_complete(p, j, payload, CALLBACK_SECRET)
    \/ \E p \in Instances, j \in Jobs : callback_fail(p, j, CALLBACK_SECRET)
    \/ \E j \in Jobs : cleanup_job(j)
    \/ \E p \in Instances : PollSelect(p)
    \/ \E p \in Instances : PollNoWork(p)
    \/ \E p \in Instances : PollClaim(p)
    \/ StartFirstWorker
    \/ \E m \in Managers, j \in Jobs, s \in Sockets : ws_connect(m, j, s)
    \/ \E s \in Sockets : peer_closes(s)
    \/ \E m \in Managers, j \in Jobs, s \in Sockets : ws_disconnect(m, j, s)

SpecBroadcast == Init /\ [][NextBroadcast]_vars

\* SpecManager: the operator's worker requests (start, stop, status, refresh)
\* served one at a time, the clock, and the containers of the started
\* workers polling for the jobs that are submitted
NextManager ==
    \/ Tick
    \/ \E outcome \in StartOutcomes : start_worker(outcome)
    \/ stop_worker
    \/ get_status
    \/ \E ok \in BOOLEAN : refresh_image(ok)
    \/ \E j \in Jobs : Submit(j, FALSE)
    \/ \E j \in Jobs : SubmitCommit(j)
    \/ \E p \in Instances : PollSelect(p)
    \/ \E p \in Instances : PollNoWork(p)
    \/ \E p \in Instances : PollClaim(p)
    \/ \E p \in Instances, j \in Jobs, payload \in CompletePayloads :
          callback_complete(p, j, payload, CALLBACK_SECRET)

SpecManager == Init /\ [][NextManager]_vars

\* SpecHeartbeat: the heartbeat monitor over an upgraded deployment while
\* the persistent worker runs a job and reports: heartbeats from its
\* heartbeat loop, status callbacks from its training loop
NextHeartbeat ==
    \/ Tick
    \/ SweepSelect
    \/ SweepCommit
    \/ SweepRaise
    \/ \E j \in Jobs : Submit(j, FALSE)
    \/ \E j \in Jobs : SubmitCommit(j)
    \/ \E p \in Instances, j \in Jobs, payload \in StatusPayloads :
          callback_status(p, j, payload, CALLBACK_SECRET)
    \/ \E p \in Instances, j \in Jobs, payload \in HeartbeatPayloads :
          callback_heartbeat(p, j, payload, CALLBACK_SECRET)
    \/ \E p \in Instances : PollSelect(p)
    \/ \E p \in Instances : PollNoWork(p)
    \/ \E p \in Instances : PollClaim(p)
    \/ StartFirstWorker

SpecHeartbeat == InitMonitor /\ [][NextHeartbeat]_vars

\* ------------------------------------------------- claims checked under Spec
\* the persistent worker's record holds job j as its current job
WorkerHolds(j) ==
    /\ HasActiveWorker(workers)
    /\ workers[ActiveIndex(workers)].current_job_id = j

\* C1: a job whose status is COMPLETED, FAILED or CANCELLED keeps that status
\* under every operation, for as long as its row exists.
C1_TerminalStatusNeverChanges ==
    [][\A j \in Jobs :
          (Visible(j) /\ IsTerminal(j) /\ jobs'[j].row = "committed")
              => jobs'[j].status = jobs[j].status]_vars

\* C3: a job is never taken by two claimants: no dedicated-provisioning
\* attempt (first or retry) has moved to PROVISIONING, and made its
\* create_gpu_instance call for, a job that a next-job poll has handed to a
\* worker.
C3_NeverPolledAndProvisioned ==
    \A j \in Jobs :
        ~(handed[j] # {} /\ prov[j].pc = "raised" /\ Visible(j))

\* C6: once a job is CANCELLED, no step of its provisioning attempt (first or
\* retry, including its failure handling) writes another status over it.
C6_ProvisioningKeepsCancelled ==
    [][\A j \in Jobs :
          (Visible(j) /\ jobs[j].status = "CANCELLED" /\ prov'[j] # prov[j])
              => jobs'[j].status = "CANCELLED"]_vars

\* C9: the cleanup that follows a complete or fail callback releases the
\* persistent worker when the job ran on it: after cleanup_job of the job the
\* worker's record holds, the record is online with no current job.
C9_CleanupReleasesWorker ==
    [][\A j \in Jobs :
          (PERSISTENT_WORKER_ENABLED /\ Visible(j) /\ handed[j] # {}
             /\ WorkerHolds(j) /\ cleanup_job(j))
              => /\ workers'[ActiveIndex(workers')].status = "online"
                 /\ workers'[ActiveIndex(workers')].current_job_id = Null]_vars

\* --------------------------------------------- claims checked under SpecPoll
\* C2: when next-job polls race for one QUEUED job, exactly one of them is
\* handed the job: no job is handed to two pollers while it was QUEUED once.
C2_OnePollerPerJob ==
    \A j \in Jobs : Cardinality(handed[j]) <= 1

\* C5: a complete callback for a job that is already COMPLETED, with the same
\* or another payload, changes no field of the job.
C5_SecondCompleteChangesNothing ==
    [][\A p \in Instances, j \in Jobs, payload \in CompletePayloads :
          (Visible(j) /\ jobs[j].status = "COMPLETED"
             /\ callback_complete(p, j, payload, CALLBACK_SECRET))
              => jobs'[j] = jobs[j]]_vars

\* --------------------------------------------- claims checked under SpecLive
\* C4: under fair scheduling every submitted job eventually reaches a
\* terminal status, also when it was left QUEUED for a persistent worker that
\* stays silent and when it is TRAINING and no callback arrives.
C4_EveryJobEndsTerminal ==
    \A j \in Jobs : Visible(j) ~> IsTerminal(j)

\* ------------------------------------------ claims checked under SpecMonitor
\* C7: when a sweep of the heartbeat monitor ends, every job it found
\* TRAINING with a last_progress_at that is NULL or more than 5 minutes old
\* is FAILED with the message 'No heartbeat for N minutes', and it changed
\* no other job.
C7_SweepFailsEveryStaleJob ==
    [][(sweep.pc # "idle" /\ sweep'.pc = "idle")
         => /\ \A r \in sweep.stale :
                 /\ jobs'[r.job].status = "FAILED"
                 /\ jobs'[r.job].error_message = NoHeartbeatMessage(r.minutes)
            /\ \A j \in Jobs :
                 (\A r \in sweep.stale : r.job # j) => jobs'[j] = jobs[j]]_vars

\* C8: when the sweep force-fails a job the persistent worker claimed through
\* next-job, the worker's instance is not destroyed and the worker's record is
\* online with no current job.
C8_SweepReleasesWorker ==
    [][(PERSISTENT_WORKER_ENABLED /\ sweep.pc = "commit" /\ sweep'.pc = "idle"
          /\ \E r \in sweep.stale : handed[r.job] # {} /\ WorkerHolds(r.job))
         => /\ <<get_persistent_instance_id(workers), "sweep">> \notin destroy_calls'
            /\ workers'[ActiveIndex(workers')].status = "online"
            /\ workers'[ActiveIndex(workers')].current_job_id = Null]_vars

\* ------------------------------------------- claims checked under SpecSystem
JobLevelCallers == {"cleanup", "sweep", "orphan", "cancel", "delete"}

\* C10: no job-level operation (cleanup, heartbeat sweep, orphan sweep, cancel,
\* delete) calls destroy on the instance of the active persistent worker or on
\* any instance running the worker container; on the active worker's instance
\* only stop_worker does, and start_worker only on the instance whose
\* bootstrap it has just failed.
C10_OnlyWorkerManagerDestroysWorker ==
    [][\A c \in destroy_calls' \ destroy_calls :
          /\ (HasActiveWorker(workers)
                /\ c[1] = get_persistent_instance_id(workers))
               => c[2] = "stop_worker"
          /\ c[2] \in JobLevelCallers => instances[c[1]] # "worker"
          /\ c[2] = "start_worker" => instances[c[1]] = "absent"]_vars

\* a job-level operation destroyed an instance and another cancelled the job
\* the worker was handed, while the worker's instance runs and its record
\* still holds that job
C10_Witness ==
    /\ \E c \in destroy_calls : c[2] \in JobLevelCallers
    /\ \E j \in Jobs :
          /\ handed[j] # {}
          /\ jobs[j].status = "CANCELLED"
          /\ WorkerHolds(j)
          /\ instances[get_persistent_instance_id(workers)] = "worker"

\* ---------------------------------------------------------- cancellation
\* C11: a cancel request on a job that is COMPLETED, FAILED or CANCELLED is
\* refused with a client error and has no side effect: no field of any job
\* changes and no destroy call is made on any instance.
C11_CancelOfTerminalJobRefused ==
    [][\A j \in Jobs :
          (Visible(j) /\ IsTerminal(j) /\ cancel_training_job(j))
              => /\ reply' = Reply("cancel_training_job", 400)
                 /\ jobs' = jobs
                 /\ destroy_calls' = destroy_calls
                 /\ instances' = instances]_vars

\* a cancel was refused for a terminal job whose recorded instance still runs
C11_Witness ==
    /\ reply = Reply("cancel_training_job", 400)
    /\ \E j \in Jobs :
          /\ Visible(j) /\ IsTerminal(j)
          /\ jobs[j].vultr_instance_id # Null
          /\ instances[jobs[j].vultr_instance_id] = "active"

\* C12: a cancel request on a job that is QUEUED, PROVISIONING or TRAINING
\* sets it to CANCELLED with the message 'Cancelled by user'; it calls destroy
\* on the job's instance when one is recorded, and on no instance otherwise;
\* the job is CANCELLED whether the provider terminated the instance or not.
C12_CancelOfLiveJobCancels ==
    [][\A j \in Jobs :
          (Visible(j) /\ jobs[j].status \in {"QUEUED", "PROVISIONING", "TRAINING"}
             /\ cancel_training_job(j))
              => /\ jobs'[j].status = "CANCELLED"
                 /\ jobs'[j].error_message = CancelledMessage
                 /\ reply' = Reply("cancel_training_job", 200)
                 /\ destroy_calls' \ destroy_calls =
                      IF jobs[j].vultr_instance_id # Null
                      THEN {<<jobs[j].vultr_instance_id, "cancel">>} \ destroy_calls
                      ELSE {}]_vars

\* a job was cancelled while PROVISIONING on an instance the provider then
\* failed to terminate
C12_Witness ==
    /\ reply = Reply("cancel_training_job", 200)
    /\ \E j \in Jobs :
          /\ Visible(j) /\ jobs[j].status = "CANCELLED"
          /\ jobs[j].error_message = CancelledMessage
          /\ jobs[j].updated_at = ORPHANED_JOB_TIMEOUT_MINUTES + 1
          /\ jobs[j].vultr_instance_id # Null
          /\ <<jobs[j].vultr_instance_id, "cancel">> \in destroy_calls
          /\ instances[jobs[j].vultr_instance_id] = "active"

\* ------------------------------------------------- dedicated provisioning
\* the provisioning task of job j is about to make its create call for a job
\* that is QUEUED, that no worker was handed, with room at the provider
ReadyToProvision(j) ==
    /\ Visible(j)
    /\ jobs[j].status = "QUEUED"
    /\ handed[j] = {}
    /\ prov[j].pc = "loaded"
    /\ \E i \in Instances : instances[i] = "absent"

\* C13: with no persistent worker taking the job and a provider that launches
\* the instance, the provisioning attempt takes the job from QUEUED through
\* PROVISIONING to TRAINING, with the instance id stored on the row before
\* TRAINING: the attempt does not raise, and leaves the job TRAINING with an
\* instance id.
C13_ProvisionedJobTrains ==
    [][\A j \in Jobs :
          (ReadyToProvision(j) /\ ProvisionCall(j, "ok"))
              => /\ prov'[j].pc # "raised"
                 /\ jobs'[j].status = "TRAINING"
                 /\ jobs'[j].vultr_instance_id # Null]_vars

\* C14: when the first two provisioning attempts raise and the provider
\* launches the instance on the third, the job ends TRAINING and not FAILED;
\* between attempts the job is put back to QUEUED, and a failed attempt that
\* is retried does not write error_message.
C14_ThirdAttemptRescuesJob ==
    [][\A j \in Jobs :
          /\ ProvisionRetry(j)
               => /\ jobs'[j].status = "QUEUED"
                  /\ jobs'[j].error_message = jobs[j].error_message
          /\ (ReadyToProvision(j) /\ prov[j].calls = MAX_PROVISION_RETRIES - 1
                 /\ ProvisionCall(j, "ok"))
               => /\ jobs'[j].status = "TRAINING"
                  /\ jobs'[j].error_message = NoMessage
                  /\ prov'[j].pc = "none"]_vars

\* C15: when every provisioning attempt raises, create_gpu_instance is called
\* exactly MAX_PROVISION_RETRIES (3) times: never more, and when the retries
\* are exhausted that many calls were made; the job is then FAILED with the
\* message 'Provisioning failed after 3 attempts', a 'failed' webhook POST
\* is attempted if the job has a notify URL, and the task ends.
C15_FailedAfterThreeAttempts ==
    [][\A j \in Jobs :
          /\ prov'[j].calls <= MAX_PROVISION_RETRIES
          /\ ProvisionExhausted(j)
               => /\ prov[j].calls = MAX_PROVISION_RETRIES
                  /\ jobs'[j].status = "FAILED"
                  /\ jobs'[j].error_message = ProvisionFailedMessage
                  /\ jobs[j].notify_webhook => <<j, "failed">> \in webhooks'
                  /\ prov'[j].pc = "none"]_vars

\* a job with a notify URL is FAILED after three create calls, and its
\* 'failed' webhook was attempted
C15_Witness ==
    \E j \in Jobs :
        /\ Visible(j) /\ jobs[j].status = "FAILED"
        /\ jobs[j].error_message = ProvisionFailedMessage
        /\ jobs[j].notify_webhook /\ <<j, "failed">> \in webhooks
        /\ prov[j] = [pc |-> "none", retry_count |-> MAX_PROVISION_RETRIES - 1,
                      calls |-> MAX_PROVISION_RETRIES]

\* ------------------------------------------------------------- submission
\* the active worker record is online or busy and was last seen inside the
\* 120-second window
WorkerSeenAlive ==
    /\ HasActiveWorker(workers)
    /\ workers[ActiveIndex(workers)].status \in {"online", "busy"}
    /\ workers[ActiveIndex(workers)].last_seen_at # Null
    /\ workers[ActiveIndex(workers)].last_seen_at * 60 < 120

C17_PollClaimsJobOrAnswersNoWork ==
    [][\A p \in Instances :
          /\ (PollClaim(p) /\ Visible(poll[p].job))
               => /\ reply' = [op |-> "worker_next_job", code |-> 200,
                                job |-> poll[p].job]
                  /\ jobs'[poll[p].job].status = "TRAINING"
                  /\ \A k \in Jobs \ {poll[p].job} : jobs'[k] = jobs[k]
                  /\ HasActiveWorker(workers)
                       => /\ workers'[ActiveIndex(workers)].status = "busy"
                          /\ workers'[ActiveIndex(workers)].current_job_id
                                = poll[p].job
          /\ PollNoWork(p)
               => /\ reply' = Reply("worker_next_job", 204)
                  /\ jobs' = jobs]_vars

\* the last poll handed out a job: the job is TRAINING and the active worker
\* record is busy with it
C17_Witness ==
    /\ reply.op = "worker_next_job" /\ reply.code = 200
    /\ jobs[reply.job].status = "TRAINING"
    /\ HasActiveWorker(workers)
    /\ workers[ActiveIndex(workers)].status = "busy"
    /\ workers[ActiveIndex(workers)].current_job_id = reply.job

\* ------------------------------------------------------- worker protocol
\* C18: a heartbeat callback, whatever the status of the job it names and
\* whatever its answer, changes no job's status, result fields
\* (result_accuracy, result_loss, epochs_completed) or error message.
C18_HeartbeatKeepsStatusAndResults ==
    [][reply'.op = "callback_heartbeat"
         => \A k \in Jobs :
               /\ jobs'[k].status = jobs[k].status
               /\ jobs'[k].result_accuracy = jobs[k].result_accuracy
               /\ jobs'[k].result_loss = jobs[k].result_loss
               /\ jobs'[k].epochs_completed = jobs[k].epochs_completed
               /\ jobs'[k].error_message = jobs[k].error_message]_vars

\* a heartbeat was accepted and stored for a job that is already terminal
C18_Witness ==
    /\ reply = Reply("callback_heartbeat", 200)
    /\ \E j \in Jobs :
          /\ Visible(j) /\ IsTerminal(j)
          /\ jobs[j].current_epoch \in { h.current_epoch : h \in HeartbeatPayloads }

\* what a refused request must leave alone: the job rows, the log rows, the
\* worker records and the tasks of the server
ServerStateUnchanged ==
    UNCHANGED <<jobs, logs, workers, cleanup_tasks, prov, handed, webhooks,
                instances, destroy_calls>>

\* the step is a callback for job j carrying this secret
CallbackWith(j, secret) ==
    \E p \in Instances :
        \/ \E payload \in StatusPayloads :
              callback_status(p, j, payload, secret)
        \/ \E payload \in HeartbeatPayloads :
              callback_heartbeat(p, j, payload, secret)
        \/ callback_log(p, j, secret)
        \/ \E payload \in CompletePayloads :
              callback_complete(p, j, payload, secret)
        \/ callback_fail(p, j, secret)

\* C20: a status, heartbeat, log, complete or fail callback or a next-job
\* poll that carries a wrong shared secret is refused with 403, and a
\* callback with the right secret that names an unknown job id is refused
\* with 404: no such request gets another answer, and a step that answers
\* 403 or 404 changes no job field, no log row, no worker record and no task.
C20_RefusedRequestsChangeNothing ==
    [][/\ reply'.code \in {403, 404} => ServerStateUnchanged
       /\ (reply'.op # "none" /\ reply'.code # 403)
            => \A j \in Jobs, secret \in Secrets \ {CALLBACK_SECRET} :
                  ~CallbackWith(j, secret) /\ ~PollForbidden(secret)
       /\ (reply'.op # "none" /\ reply'.code \notin {403, 404})
            => \A j \in Jobs :
                  ~Visible(j) => ~CallbackWith(j, CALLBACK_SECRET)]_vars

\* a complete callback with a wrong secret was refused for a job that is
\* TRAINING on a busy worker
C20_Witness ==
    /\ reply = Reply("callback_complete", 403)
    /\ \E j \in Jobs :
          /\ Visible(j) /\ jobs[j].status = "TRAINING" /\ WorkerHolds(j)
          /\ workers[ActiveIndex(workers)].status = "busy"

\* ---------------------------------------------------------------- webhooks
\* the status string a webhook POST carries for a terminal status
WebhookStatus(st) ==
    CASE st = "COMPLETED" -> "completed"
      [] st = "FAILED" -> "failed"
      [] st = "CANCELLED" -> "cancelled"

\* C19: every transition of a job that has a notify URL into COMPLETED,
\* FAILED or CANCELLED, by whichever operation, is accompanied by an
\* attempted webhook POST carrying that status.
C19_TerminalTransitionFiresWebhook ==
    [][\A j \in Jobs :
          (Visible(j) /\ jobs[j].notify_webhook
             /\ jobs'[j].row = "committed"
             /\ jobs'[j].status \in TerminalStatuses
             /\ jobs'[j].status # jobs[j].status)
              => <<j, WebhookStatus(jobs'[j].status)>> \in webhooks']_vars

\* ------------------------------------------------------- status life cycle
\* the status changes the life cycle allows
AllowedEdges ==
    { <<"QUEUED", "PROVISIONING">>, <<"PROVISIONING", "TRAINING">>,
      <<"PROVISIONING", "QUEUED">>, <<"PROVISIONING", "FAILED">>,
      <<"TRAINING", "UPLOADING">>, <<"UPLOADING", "COMPLETED">>,
      <<"TRAINING", "COMPLETED">>, <<"TRAINING", "FAILED">>,
      <<"QUEUED", "TRAINING">>,
      <<"QUEUED", "CANCELLED">>, <<"PROVISIONING", "CANCELLED">>,
      <<"TRAINING", "CANCELLED">> }

\* C23: every change of the status of a job row, by any operation in any
\* interleaving, is one of the allowed edges; in particular no job goes from
\* TRAINING back to PROVISIONING or QUEUED, and none from QUEUED or
\* PROVISIONING straight to COMPLETED.
C23_StatusChangesFollowEdges ==
    [][\A j \in Jobs :
          (jobs[j].row \in {"uncommitted", "committed"}
             /\ jobs'[j].row \in {"uncommitted", "committed"}
             /\ jobs'[j].status # jobs[j].status)
              => <<jobs[j].status, jobs'[j].status>> \in AllowedEdges]_vars

\* C25: in every reachable state a job has an instance id recorded only if
\* its status is PROVISIONING, TRAINING or UPLOADING.
C25_InstanceOnlyWhileActive ==
    \A j \in Jobs :
        (Visible(j) /\ jobs[j].vultr_instance_id # Null)
            => jobs[j].status \in {"PROVISIONING", "TRAINING", "UPLOADING"}

\* C28: an orphan sweep sets every job that is PROVISIONING with an
\* updated_at more than ORPHANED_JOB_TIMEOUT_MINUTES old to FAILED with the
\* message 'Job timed out during provisioning', whether or not the provider
\* terminated its instance, and changes no other job.
C28_OrphanSweepFailsOldProvisioning ==
    [][cleanup_orphaned_jobs
         => \A j \in Jobs :
               IF Visible(j) /\ jobs[j].status = "PROVISIONING"
                  /\ jobs[j].updated_at > ORPHANED_JOB_TIMEOUT_MINUTES
               THEN /\ jobs'[j].status = "FAILED"
                    /\ jobs'[j].error_message = OrphanedMessage
                    /\ jobs'[j].vultr_instance_id # Null
                         => <<jobs[j].vultr_instance_id, "orphan">>
                               \in destroy_calls'
               ELSE jobs'[j] = jobs[j]]_vars

\* an orphaned job was failed although the provider did not terminate its
\* instance
C28_Witness ==
    \E j \in Jobs :
        /\ Visible(j) /\ jobs[j].status = "FAILED"
        /\ jobs[j].error_message = OrphanedMessage
        /\ jobs[j].vultr_instance_id # Null
        /\ <<jobs[j].vultr_instance_id, "orphan">> \in destroy_calls
        /\ instances[jobs[j].vultr_instance_id] = "active"

\* C29: a provisioning attempt that starts when its job is COMPLETED, FAILED
\* or CANCELLED, or when no row of the job can be read, ends at once: it
\* creates no instance, changes no job field and schedules no retry.
C29_AttemptOnTerminalJobDoesNothing ==
    [][\A j \in Jobs :
          (ProvisionLoad(j) /\ (~Visible(j) \/ IsTerminal(j)))
              => /\ prov'[j].pc = "none"
                 /\ prov'[j].calls = prov[j].calls
                 /\ jobs' = jobs
                 /\ instances' = instances]_vars

\* the only attempt of a job that was cancelled before the task read its row
\* has ended without a create call
C29_Witness ==
    /\ ~PERSISTENT_WORKER_ENABLED
    /\ \E j \in Jobs :
          /\ Visible(j) /\ jobs[j].status = "CANCELLED"
          /\ prov[j] = [pc |-> "none", retry_count |-> 0, calls |-> 0]

\* ------------------------------------------------------------ queue order
\* C26: a next-job poll selects the QUEUED job that was created first (rows
\* are created in id order), and the job it returns is the job it selected:
\* no job is selected or handed out while a job created earlier is QUEUED.
C26_PollTakesOldestQueued ==
    [][\A p \in Instances :
          /\ PollSelect(p)
               => /\ Visible(poll'[p].job)
                  /\ jobs[poll'[p].job].status = "QUEUED"
                  /\ \A k \in Jobs :
                        (Visible(k) /\ jobs[k].status = "QUEUED")
                            => poll'[p].job <= k
          /\ (PollClaim(p) /\ reply'.code = 200)
               => /\ reply'.job = poll[p].job
                  /\ \A k \in Jobs :
                        (Visible(k) /\ jobs[k].status = "QUEUED")
                            => reply'.job <= k]_vars

\* --------------------------------------------------------- reported epochs
\* C27: after any sequence of status and heartbeat callbacks a job's
\* current_epoch is at most its max_epochs.
C27_EpochWithinMaxEpochs ==
    \A j \in Jobs :
        Visible(j) => jobs[j].current_epoch <= jobs[j].max_epochs

\* ------------------------------------------------------- worker records
NonTerminated(ws) == { n \in 1..Len(ws) : ws[n].status # "terminated" }

\* C21: in every reachable state, start requests that overlap included, at
\* most one PersistentWorker record has a status other than terminated.
C21_AtMostOneLiveWorkerRecord == Cardinality(NonTerminated(workers)) <= 1

\* the provider has the instance of the active record up
ActiveWorkerUp ==
    /\ HasActiveWorker(workers)
    /\ LET w == workers[ActiveIndex(workers)] IN
         /\ w.lambda_instance_id # Null
         /\ instances[w.lambda_instance_id] \in {"active", "worker"}

\* C22: a start request made while a non-terminated record exists whose
\* instance the provider reports as up is refused: no instance is created and
\* the record is left as it was.
C22_StartRefusedWhileWorkerUp ==
    [][(ActiveWorkerUp /\ \E outcome \in LaunchOutcomes : StartLaunch(outcome))
          => (workers' = workers /\ instances' = instances)]_vars

\* ------------------------------------------------- remote-shell bootstrap
\* a record or a job that names instance i
Recorded(i) ==
    \/ \E n \in 1..Len(workers) : workers[n].lambda_instance_id = i
    \/ \E j \in Jobs : jobs[j].row # "none" /\ jobs[j].vultr_instance_id = i

\* C30: the bootstrap over the remote shell is attempted at most 5 times on
\* an instance and no more once it succeeded; a bootstrap ends with the
\* instance recorded, or after 5 failed attempts with the instance handed to
\* destroy_instance and recorded nowhere, and an instance destroyed for its
\* failed bootstrap is recorded neither on a worker record nor on a job.
C30_BootstrapTriedFiveTimesThenDestroyed ==
    /\ [](\A i \in Instances :
            /\ ssh_calls[i] <= max_ssh_retries
            /\ Recorded(i) => i \notin starts
            /\ (\E c \in destroy_calls :
                   /\ c[1] = i
                   /\ c[2] \in {"start_worker", "create_gpu_instance"})
                 => ~Recorded(i))
    /\ [][\A i \in Instances :
            (i \in starts /\ i \notin starts')
                => \/ Recorded(i)'
                   \/ /\ ssh_calls'[i] = max_ssh_retries
                      /\ <<i, "start_worker">> \in destroy_calls'
                      /\ ~Recorded(i)']_vars

\* instance 1 failed all its attempts and was destroyed, while the bootstrap
\* of instance 2 succeeded at a later attempt than its first
C30_Witness ==
    /\ ssh_calls[1] = max_ssh_retries
    /\ <<1, "start_worker">> \in destroy_calls
    /\ ~Recorded(1)
    /\ \E i \in Instances :
          ssh_calls[i] \in 2..max_ssh_retries /\ Recorded(i)

\* --------------------------------------------------------------- observers
\* a callback of the worker on job j that broadcasts to the observers of the
\* job's progress
ProgressCallback(j) ==
    \/ \E p \in Instances, payload \in StatusPayloads :
          callback_status(p, j, payload, CALLBACK_SECRET)
    \/ \E p \in Instances, payload \in CompletePayloads :
          callback_complete(p, j, payload, CALLBACK_SECRET)
    \/ \E p \in Instances : callback_fail(p, j, CALLBACK_SECRET)

\* C24: a broadcast to the observers of a job reaches every observer whose
\* send succeeds, also when the send to another observer of the job fails,
\* and a failed send fails neither the broadcast nor the callback that made
\* it: the callback answers 200.
C24_BroadcastSurvivesFailedSend ==
    [][\A j \in Jobs :
          /\ (reply'.code \notin {403, 404} /\ ProgressCallback(j))
               => /\ delivered' = active_connections["progress"][j] \ closed
                  /\ reply'.code = 200
          /\ (reply'.code \notin {403, 404}
               /\ \E p \in Instances : callback_log(p, j, CALLBACK_SECRET))
               => /\ delivered' = active_connections["logs"][j] \ closed
                  /\ reply'.code = 200]_vars

\* ------------------------------------------------------- callback frames
\* C32: a heartbeat callback leaves the progress fields of the job alone:
\* its current epoch, its loss and accuracy, its last-progress time.
C32_HeartbeatKeepsProgress ==
    [][reply'.op = "callback_heartbeat"
         => \A k \in Jobs :
               /\ jobs'[k].current_epoch = jobs[k].current_epoch
               /\ jobs'[k].result_accuracy = jobs[k].result_accuracy
               /\ jobs'[k].result_loss = jobs[k].result_loss
               /\ jobs'[k].last_progress_at = jobs[k].last_progress_at]_vars

\* C33: result_accuracy and result_loss are written by the complete callback
\* only: a status callback leaves them as they were.
C33_StatusKeepsResults ==
    [][reply'.op = "callback_status"
         => \A k \in Jobs :
               /\ jobs'[k].result_accuracy = jobs[k].result_accuracy
               /\ jobs'[k].result_loss = jobs[k].result_loss]_vars

\* ------------------------------------------------------- worker records
\* C39: in every reachable state the active worker record names a current
\* job exactly when its status is busy.
C39_CurrentJobExactlyWhenBusy ==
    HasActiveWorker(workers)
        => LET w == workers[ActiveIndex(workers)] IN
               (w.current_job_id # Null) <=> (w.status = "busy")

\* the worker records of instance i, in table ws
RecordsOf(ws, i) ==
    { ws[n] : n \in { m \in 1..Len(ws) : ws[m].lambda_instance_id = i } }

\* record v is record w as it was written: last_seen_at is kept as an age,
\* which grows with the clock and is 0 when the stamp is renewed
SameRecord(w, v) ==
    /\ v.lambda_instance_id = w.lambda_instance_id
    /\ v.status = w.status
    /\ v.current_job_id = w.current_job_id
    /\ (v.last_seen_at = Null) <=> (w.last_seen_at = Null)
    /\ v.last_seen_at >= w.last_seen_at

\* C31: a stop request marks the active record terminated whatever became
\* of its instance, and a terminated record is never changed or removed
\* again, whichever worker-manager call runs.
C31_StopTerminatesForGood ==
    [][/\ \A i \in Instances :
            (<<i, "stop_worker">> \in destroy_calls' \ destroy_calls)
                => /\ HasActiveWorker(workers)
                   /\ workers[ActiveIndex(workers)].lambda_instance_id = i
                   /\ \A w \in RecordsOf(workers', i) : w.status = "terminated"
       /\ \A n \in 1..Len(workers) :
            workers[n].status = "terminated"
                => \E v \in RecordsOf(workers',
                                      workers[n].lambda_instance_id) :
                       SameRecord(workers[n], v)]_vars

\* a worker was stopped while it ran a job and its instance outlived the
\* destroy call; a second worker has been started since and took a job
C31_Witness ==
    \E n \in 1..Len(workers) :
        /\ workers[n].status = "terminated"
        /\ workers[n].current_job_id # Null
        /\ instances[workers[n].lambda_instance_id] = "worker"
        /\ <<workers[n].lambda_instance_id, "stop_worker">> \in destroy_calls
        /\ HasActiveWorker(workers)
        /\ workers[ActiveIndex(workers)].status \in {"online", "busy"}

\* the active record was seen, and longer ago than the liveness window
WorkerSilent ==
    /\ HasActiveWorker(workers)
    /\ workers[ActiveIndex(workers)].last_seen_at # Null
    /\ workers[ActiveIndex(workers)].last_seen_at * 60
          > WORKER_OFFLINE_TIMEOUT_SECONDS

\* C34: get_status writes offline on an online or busy record whose last-seen
\* time is older than the 120-second window; a record becomes offline in no
\* other case, and the next next-job poll makes an offline record online.
C34_SilentWorkerOfflineUntilNextPoll ==
    [][/\ get_status
            => workers'[ActiveIndex(workers)].status = "offline"
       /\ (/\ HasActiveWorker(workers)
           /\ workers[ActiveIndex(workers)].status # "offline"
           /\ Len(workers') = Len(workers)
           /\ workers'[ActiveIndex(workers)].status = "offline")
            => /\ WorkerSilent
               /\ workers[ActiveIndex(workers)].status \in {"online", "busy"}
       /\ \A p \in Instances :
            (/\ PollSelect(p) \/ PollNoWork(p)
             /\ HasActiveWorker(workers)
             /\ workers[ActiveIndex(workers)].status = "offline")
                => workers'[ActiveIndex(workers)].status = "online"]_vars

\* a worker went silent while it ran a job and a status request demoted it;
\* its container is done with the job and about to poll again
C34_Witness ==
    /\ WorkerSilent
    /\ workers[ActiveIndex(workers)].status = "offline"
    /\ poll[workers[ActiveIndex(workers)].lambda_instance_id].pc = "idle"

\* ---------------------------------------------------- submission and task
\* C35: on a deployment without persistent worker, a submitted job that is
\* committed and QUEUED has its provisioning task: no task loads the row
\* before the commit, finds nothing and returns.
C35_QueuedJobHasItsTask ==
    ~PERSISTENT_WORKER_ENABLED
        => \A j \in Jobs :
              (Visible(j) /\ jobs[j].status = "QUEUED") => prov[j].pc # "none"

\* ------------------------------------------------------- heartbeat monitor
\* the stale jobs a sweep found that it can handle: the stamp is not NULL
Handled(stale) == { r \in stale : r.minutes # Null }

\* C36: heartbeat callbacks do not postpone force-failure: a heartbeat leaves
\* last_progress_at alone, and a sweep that found a TRAINING job stale, whose
\* worker sent heartbeats and no status callback since, ends with the job
\* FAILED.
C36_HeartbeatsDoNotPostponeFailure ==
    [][/\ reply'.op = "callback_heartbeat"
            => \A j \in Jobs :
                  jobs'[j].last_progress_at = jobs[j].last_progress_at
       /\ (sweep.pc # "idle" /\ sweep'.pc = "idle")
            => \A r \in Handled(sweep.stale) :
                  (\E h \in HeartbeatPayloads :
                      /\ h.current_epoch # Null
                      /\ jobs[r.job].current_epoch = h.current_epoch)
                      => jobs'[r.job].status = "FAILED"]_vars

\* C37: the stale jobs of one sweep are handled independently: when the
\* sweep ends, every stale job it could handle is FAILED, whatever happened
\* with another one, and no job has its failed webhook sent by the sweep
\* without being FAILED.
C37_StaleJobsHandledIndependently ==
    [][(sweep.pc # "idle" /\ sweep'.pc = "idle")
         => /\ \A r \in Handled(sweep.stale) :
                 jobs'[r.job].status = "FAILED"
            /\ \A j \in Jobs :
                 (<<j, "failed">> \in webhooks' /\ Visible(j))
                     => jobs'[j].status = "FAILED"]_vars

\* instances the provider launched and create_gpu_instance gave up waiting
\* for: wait_for_instance_active timed out or a status lookup raised
LaunchedNotActive == { i \in Instances : instances[i] = "booting" }

\* C38: whenever create_gpu_instance raises after the provider has launched
\* an instance (the active-poll times out, a status lookup fails, or
\* bootstrap is exhausted), destroy has been called on that instance
C38_RaiseAfterLaunchDestroys ==
    /\ \A i \in LaunchedNotActive : \E c \in destroy_calls : c[1] = i
    /\ \A i \in Instances :
          (ssh_calls[i] = max_ssh_retries /\ instances[i] # "worker")
              => \E c \in destroy_calls : c[1] = i

\* the worker on instance p has sent the fail callback of run_with_retry for
\* the run it is in and has not left the run
FailSent(p) == instances[p] = "worker" /\ poll[p].pc = "failing"

\* C40: for each job it runs the worker sends exactly one terminal callback,
\* complete when the training function returned, fail when all attempts
\* raised; it never sends both and never sends the fail callback more than
\* once for the same run
C40_OneTerminalCallbackPerRun ==
    [][\A p \in Instances :
          FailSent(p) => ~(/\ reply'.op \in {"callback_fail", "callback_complete"}
                           /\ poll'[p] # poll[p])]_vars

====
